---- MODULE Spec2Model ----
(***************************************************************************)
(* Model of the log monitor of the Hypixel stats companion                 *)
(* (src/src/log_monitor.py): the tail reader, the line classifiers, the    *)
(* lobby state and the callbacks of LogMonitor, driven by the file-system  *)
(* watcher and the timers of src/src/ui/main_window.py.                    *)
(*                                                                         *)
(* Text is a sequence of tokens.  A token is one character, or a run of    *)
(* characters that the patterns of the monitor never split: a fixed marker *)
(* of the log grammar ("ONLINE:", "[TEAM] ", ...), a word that begins with *)
(* a capital letter ("Alice"), a colour word ("red") or a player count     *)
(* ("(2)").  Characters outside ASCII are written by name: "<sect>" is     *)
(* U+00A7, "<e-acute>" is U+00E9, "<yo-yak>" and "<ngo-ngu>" are the Thai  *)
(* letters U+0E22 and U+0E07 that stand in the pattern of                  *)
(* _strip_minecraft_formatting, "<soh>" is the control character U+0001.   *)
(* In a line of the corpus a marker never touches a word so as to extend   *)
(* it, and a word that follows the two Thai letters is a single character. *)
(***************************************************************************)
EXTENDS Naturals, Sequences, FiniteSets, Bags, TLC

(***************************************************************************)
(* Bounds of the model.                                                    *)
(***************************************************************************)
\* the file never holds more than MaxFile appended pieces
MaxFile == 2
\* the clock advances in steps of Quantum seconds
Quantum == 10
\* the ranking engine is given lists of at most MaxPlayers players
MaxPlayers == 3

(***************************************************************************)
(* Character classes.                                                      *)
(***************************************************************************)
\* [a-zA-Z0-9_]+ : words and characters of ASCII letters, digits, underscore
AsciiWord ==
  {"Alice", "Bob", "Carol", "Dave", "None", "Hello", "red", "RED", "Red",
   "a", "r", "_"}

\* \w of a Python 3 str pattern: the ASCII word characters and every other
\* Unicode letter
WordTokens == AsciiWord \cup {"<e-acute>", "<yo-yak>", "<ngo-ngu>"}

\* [\x00-\x1F\x7F-\xFF]
ControlOrHigh == {"<soh>", "<sect>", "<e-acute>"}

\* [0-9a-fklmnor]
CodeChars == {"a", "r"}

\* \s
Space == {" "}

\* \(\d+\)
CountTokens == {"(2)"}

IsWord(t) == t \in WordTokens

(***************************************************************************)
(* String helpers (str.strip, str.split(','), str.upper).                  *)
(***************************************************************************)
RECURSIVE LStrip(_)
LStrip(s) ==
  IF s # <<>> /\ Head(s) \in Space THEN LStrip(Tail(s)) ELSE s

RECURSIVE RStrip(_)
RStrip(s) ==
  IF s # <<>> /\ s[Len(s)] \in Space
  THEN RStrip(SubSeq(s, 1, Len(s) - 1))
  ELSE s

\* str.strip()
Strip(s) == LStrip(RStrip(s))

\* str.split(','): the pieces between the commas, empty pieces included
RECURSIVE SplitComma(_, _)
SplitComma(s, cur) ==
  IF s = <<>> THEN <<cur>>
  ELSE IF Head(s) = "," THEN <<cur>> \o SplitComma(Tail(s), <<>>)
  ELSE SplitComma(Tail(s), Append(cur, Head(s)))

UpperToken(t) == IF t \in {"red", "Red"} THEN "RED" ELSE t

\* str.upper()
Upper(s) == [i \in 1..Len(s) |-> UpperToken(s[i])]

\* the maximal run of word tokens of s that starts at index i (\w+, greedy)
RECURSIVE WordRunFrom(_, _)
WordRunFrom(s, i) ==
  IF i <= Len(s) /\ IsWord(s[i])
  THEN <<s[i]>> \o WordRunFrom(s, i + 1)
  ELSE <<>>

\* the maximal run of word tokens of s that ends at index i
RECURSIVE WordRunTo(_, _)
WordRunTo(s, i) ==
  IF i >= 1 /\ IsWord(s[i])
  THEN Append(WordRunTo(s, i - 1), s[i])
  ELSE <<>>

Min(S) == CHOOSE x \in S : \A y \in S : x <= y

Contains(s, t) == \E i \in 1..Len(s) : s[i] = t

(***************************************************************************)
(* LogMonitor._strip_minecraft_formatting                                  *)
(***************************************************************************)
\* re.sub(r'<yo-yak><ngo-ngu>[0-9a-fklmnor]', '', text)
RECURSIVE StripColorCodes(_)
StripColorCodes(s) ==
  IF s = <<>> THEN <<>>
  ELSE IF /\ Len(s) >= 3
          /\ s[1] = "<yo-yak>"
          /\ s[2] = "<ngo-ngu>"
          /\ s[3] \in CodeChars
       THEN StripColorCodes(SubSeq(s, 4, Len(s)))
       ELSE <<Head(s)>> \o StripColorCodes(Tail(s))

\* re.sub(r'[\x00-\x1F\x7F-\xFF]', '', clean_text)
StripControlOrHigh(s) == SelectSeq(s, LAMBDA t : t \notin ControlOrHigh)

\* re.sub(r'[^a-zA-Z0-9_]+$', '', clean_text)
RECURSIVE StripTrailingNonWord(_)
StripTrailingNonWord(s) ==
  IF s # <<>> /\ s[Len(s)] \notin AsciiWord
  THEN StripTrailingNonWord(SubSeq(s, 1, Len(s) - 1))
  ELSE s

strip_minecraft_formatting(text) ==
  StripTrailingNonWord(StripControlOrHigh(StripColorCodes(text)))

(***************************************************************************)
(* LogMonitor._parse_who_output                                            *)
(***************************************************************************)
\* who_pattern.search(line): ONLINE:\s*(.*?)(?:\s*\(\d+\))?$
WhoMatches(line) == Contains(line, "ONLINE:")

\* match.group(1).strip(): the text after the first "ONLINE:" up to the end
\* of the line or to a trailing player count
WhoPlayersText(line) ==
  LET i    == Min({j \in 1..Len(line) : line[j] = "ONLINE:"})
      rest == SubSeq(line, i + 1, Len(line))
      body == IF rest # <<>> /\ rest[Len(rest)] \in CountTokens
              THEN SubSeq(rest, 1, Len(rest) - 1)
              ELSE rest
  IN  Strip(body)

\* the early return with an empty list
WhoIsEmptyRoster(line) == WhoPlayersText(line) \in {<<>>, <<"None">>}

\* [name.strip() for name in players_text.split(',')], the empty names
\* filtered out, each remaining name stripped of its formatting
RECURSIVE CleanNames(_)
CleanNames(parts) ==
  IF parts = <<>> THEN <<>>
  ELSE IF Strip(Head(parts)) = <<>> THEN CleanNames(Tail(parts))
  ELSE <<strip_minecraft_formatting(Strip(Head(parts)))>>
         \o CleanNames(Tail(parts))

WhoPlayerNames(line) == CleanNames(SplitComma(WhoPlayersText(line), <<>>))

SeqRange(s) == {s[k] : k \in 1..Len(s)}

\* a roster that takes the place of the known players
WhoAllPlayersReplacing(all, line) ==
  IF ~WhoMatches(line) \/ WhoIsEmptyRoster(line)
  THEN all
  ELSE SeqRange(WhoPlayerNames(line))

\* self.all_players after _parse_who_output(line)
WhoAllPlayers(all, line) ==
  IF ~WhoMatches(line) \/ WhoIsEmptyRoster(line)
  THEN all
  ELSE all \cup SeqRange(WhoPlayerNames(line))

\* a return value that lists only the names the roster added
ParseWhoOutputNewOnly(all, line) ==
  IF ~WhoMatches(line) THEN [matched |-> FALSE, list |-> {}]
  ELSE IF WhoIsEmptyRoster(line) THEN [matched |-> TRUE, list |-> {}]
  ELSE [matched |-> TRUE, list |-> WhoAllPlayers(all, line) \ all]

\* the value _parse_who_output(line) returns: None (matched = FALSE), or a
\* list, which holds the names of a set in some order
parse_who_output(all, line) ==
  IF ~WhoMatches(line) THEN [matched |-> FALSE, list |-> {}]
  ELSE IF WhoIsEmptyRoster(line) THEN [matched |-> TRUE, list |-> {}]
  ELSE [matched |-> TRUE, list |-> WhoAllPlayers(all, line)]

(***************************************************************************)
(* LogMonitor._parse_team_color_info                                       *)
(***************************************************************************)
YOUR_TEAM == <<"YOUR_TEAM">>

\* team_chat_pattern.search(line): \[TEAM\] (\w+)
TeamChatAt(line) ==
  {i \in 1..Len(line) :
     line[i] = "[TEAM] " /\ i < Len(line) /\ IsWord(line[i + 1])}

TeamChatMatches(line) == TeamChatAt(line) # {}

\* team_chat_match.group(1)
TeamChatName(line) == WordRunFrom(line, Min(TeamChatAt(line)) + 1)

\* team_join_pattern.search(line): (\w+) has joined the (\w+) team
TeamJoinAt(line) ==
  {j \in 1..Len(line) :
     /\ line[j] = " has joined the "
     /\ j > 1 /\ IsWord(line[j - 1])
     /\ LET c == WordRunFrom(line, j + 1)
        IN  /\ c # <<>>
            /\ j + Len(c) + 1 <= Len(line)
            /\ line[j + Len(c) + 1] = " team"}

TeamJoinMatches(line) == TeamJoinAt(line) # {}

\* team_join_match.group(1), group(2)
TeamJoinName(line) == WordRunTo(line, Min(TeamJoinAt(line)) - 1)
TeamJoinColor(line) == WordRunFrom(line, Min(TeamJoinAt(line)) + 1)

\* the name of the team event of the line: the name whose team the line sets
TeamEventName(line) ==
  IF TeamChatMatches(line)
  THEN strip_minecraft_formatting(TeamChatName(line))
  ELSE strip_minecraft_formatting(TeamJoinName(line))

\* the branch of _parse_team_color_info that the line takes
TeamChatApplies(teams, line) ==
  /\ TeamChatMatches(line)
  /\ TeamEventName(line) # <<>>
  /\ TeamEventName(line) \notin DOMAIN teams

TeamJoinApplies(line) == ~TeamChatMatches(line) /\ TeamJoinMatches(line)

\* found_team_info, the value _parse_team_color_info returns
FoundTeamInfo(teams, line) ==
  TeamChatApplies(teams, line) \/ TeamJoinApplies(line)

\* a tag that keeps the casing of the log
TeamEventTagAsLogged(line) ==
  IF TeamChatMatches(line) THEN YOUR_TEAM ELSE TeamJoinColor(line)

\* the tag the team event stores and reports
TeamEventTag(line) ==
  IF TeamChatMatches(line) THEN YOUR_TEAM ELSE Upper(TeamJoinColor(line))

\* d[k] = v of a Python dict
DictSet(d, k, v) == [x \in DOMAIN d \cup {k} |-> IF x = k THEN v ELSE d[x]]

\* self.player_teams after _parse_team_color_info(line)
TeamPlayerTeams(teams, line) ==
  IF FoundTeamInfo(teams, line)
  THEN DictSet(teams, TeamEventName(line), TeamEventTag(line))
  ELSE teams

\* self.all_players after _parse_team_color_info(line): only a team join
\* adds the name
TeamAllPlayers(all, line) ==
  IF TeamJoinApplies(line) THEN all \cup {TeamEventName(line)} ELSE all

(***************************************************************************)
(* The loop of LogMonitor._process_new_lines over the lines of one read.   *)
(* A loop state holds self.all_players (all), self.player_teams (teams),   *)
(* the local list players, which holds every name of a set once per        *)
(* extend (a bag), and the callbacks invoked so far (emitted).  Two        *)
(* fields record history: submitted is the set of the non-empty names that *)
(* rosters submitted since the last reset, returned is the value of the    *)
(* latest call of _parse_who_output with the names submitted until then.   *)
(***************************************************************************)
EmptyDict == [x \in {} |-> <<>>]

\* one invocation of self.team_callback(name, tag) while line k of the read
\* is handled; teams is self.player_teams at the time of the call
TeamCall(name, tag, k, teams) ==
  [cb |-> "team", name |-> name, tag |-> tag, players |-> EmptyBag,
   line |-> k, teams |-> teams]

\* one invocation of self.callback(players) after n lines were handled
PlayersCall(players, n, teams) ==
  [cb |-> "players", name |-> <<>>, tag |-> <<>>, players |-> players,
   line |-> n, teams |-> teams]

\* lobby_join_pattern.search(line) or game_start_pattern.search(line)
IsLobbyChange(line) ==
  Contains(line, "You joined the lobby!")
    \/ Contains(line, "The game has started!")

\* a reset that forgets the teams and keeps the players
ResetLobbyKeepsPlayers(st) ==
  [st EXCEPT !.teams = EmptyDict, !.submitted = {}]

\* LogMonitor.reset_lobby
reset_lobby(st) ==
  [st EXCEPT !.all = {}, !.teams = EmptyDict, !.submitted = {}]

NoReturn == [matched |-> FALSE, list |-> {}, submitted |-> {}]

\* a team callback invoked before player_teams is assigned
ParseTeamColorInfoCallFirst(st, line, k) ==
  [st EXCEPT
     !.teams   = TeamPlayerTeams(st.teams, line),
     !.all     = TeamAllPlayers(st.all, line),
     !.emitted = IF FoundTeamInfo(st.teams, line)
                 THEN Append(@, TeamCall(TeamEventName(line),
                                          TeamEventTag(line), k, st.teams))
                 ELSE @]

\* the call self._parse_team_color_info(line) for line k of the read
parse_team_color_info(st, line, k) ==
  LET teams1 == TeamPlayerTeams(st.teams, line)
  IN  [st EXCEPT
         !.teams   = teams1,
         !.all     = TeamAllPlayers(st.all, line),
         !.emitted = IF FoundTeamInfo(st.teams, line)
                     THEN Append(@, TeamCall(TeamEventName(line),
                                              TeamEventTag(line), k, teams1))
                     ELSE @]

\* the call self._parse_who_output(line) and the lines that follow it: a
\* returned list that is not empty is added to all_players and to players
WhoStep(st, line) ==
  LET ret  == parse_who_output(st.all, line)
      subm == IF WhoMatches(line) /\ ~WhoIsEmptyRoster(line)
              THEN st.submitted \cup (SeqRange(WhoPlayerNames(line)) \ {<<>>})
              ELSE st.submitted
  IN  [st EXCEPT
         !.all       = WhoAllPlayers(st.all, line) \cup ret.list,
         !.players   = IF ret.list # {} THEN @ (+) SetToBag(ret.list) ELSE @,
         !.submitted = subm,
         !.returned  = IF ret.matched
                       THEN [matched |-> TRUE, list |-> ret.list,
                             submitted |-> subm]
                       ELSE @]

\* the body of the loop for line k
ProcessLine(st, line, k) ==
  LET st1 == IF IsLobbyChange(line) THEN reset_lobby(st) ELSE st
      st2 == parse_team_color_info(st1, line, k)
  IN  WhoStep(st2, line)

RECURSIVE ProcessLines(_, _, _)
ProcessLines(st, lines, k) ==
  IF k > Len(lines) THEN st
  ELSE ProcessLines(ProcessLine(st, lines[k], k), lines, k + 1)

\* a dispatch that does not test players
DispatchAlways(st, n) ==
  [st EXCEPT !.emitted = Append(@, PlayersCall(st.players, n, st.teams))]

\* if players: ... self.callback(players)
Dispatch(st, n) ==
  IF st.players # EmptyBag
  THEN [st EXCEPT !.emitted = Append(@, PlayersCall(st.players, n, st.teams))]
  ELSE st

\* the loop and the dispatch for the lines of one read
LoopStart(all, teams, subm) ==
  [all |-> all, teams |-> teams, players |-> EmptyBag, emitted |-> <<>>,
   submitted |-> subm, returned |-> NoReturn]

ProcessBatch(all, teams, subm, lines) ==
  Dispatch(ProcessLines(LoopStart(all, teams, subm), lines, 1), Len(lines))

(***************************************************************************)
(* The log file and what its producer writes.  The file is the sequence of *)
(* the pieces appended to it; a piece is the text of one write and whether *)
(* the write ended the line.  Offsets and sizes count pieces.              *)
(***************************************************************************)
Whole(text) == [text |-> text, nl |-> TRUE]

LineHello   == <<"Hello">>
LineLobby   == <<"You joined the lobby!">>
LineStarted == <<"The game has started!">>
LineWhoAB   == <<"ONLINE:", " ", "Alice", ",", " ", "Bob", " ", "(2)">>
LineWhoC    == <<"ONLINE:", " ", "Carol">>
LineWhoNone == <<"ONLINE:", " ", "None">>
LineChatBob == <<"[TEAM] ", "Bob", ":", " ", "Hello">>
LineJoinA   == <<"Alice", " has joined the ", "red", " team", "!">>
LineJoinBob == <<"Bob", " has joined the ", "RED", " team", "!">>

\* lines that match several patterns, and names that strip to nothing
LineLobbyWho == <<"You joined the lobby!", " ", "ONLINE:", " ", "Bob">>
LineChatWho  == <<"[TEAM] ", "Bob", ":", " ", "ONLINE:", " ", "Alice">>
LineJoinE    == <<"<e-acute>", " has joined the ", "Red", " team">>
LineWhoBang  == <<"ONLINE:", " ", "!", ",", " ", "Carol">>

\* The vocabularies of the producer: in one run it writes the pieces of one
\* of them, in any order and any number of times.
RosterCorpus ==
  {Whole(l) : l \in {LineWhoAB, LineWhoC, LineWhoNone, LineLobby}}
TeamCorpus   ==
  {Whole(l) : l \in {LineChatBob, LineJoinBob, LineJoinA, LineWhoAB}}
PlainCorpus  == {Whole(l) : l \in {LineHello, LineStarted, LineChatBob}}
MixedCorpus  ==
  {Whole(l) : l \in {LineLobbyWho, LineChatWho, LineJoinBob, LineJoinE,
                     LineWhoBang}}

Corpora == {RosterCorpus, TeamCorpus, PlainCorpus, MixedCorpus}

\* new_content.splitlines(): the texts of the pieces up to each line end; an
\* unfinished last line is a line too
RECURSIVE SplitLines(_, _)
SplitLines(content, cur) ==
  IF content = <<>>
  THEN IF cur = <<>> THEN <<>> ELSE <<cur>>
  ELSE IF Head(content).nl
       THEN <<cur \o Head(content).text>> \o SplitLines(Tail(content), <<>>)
       ELSE SplitLines(Tail(content), cur \o Head(content).text)

(***************************************************************************)
(* State.                                                                  *)
(***************************************************************************)
VARIABLES
  corpus,         \* the pieces the producer of the log writes in this run
  exists,         \* os.path.exists(self.log_file_path)
  file,           \* the content of the log file
  last_position,  \* self.last_position
  elapsed,        \* time.time() - self.last_successful_read, in seconds,
                  \* kept up to QuietSeconds + 1
  running,        \* self.running
  observer,       \* self.observer: "none", or an Observer that is "created",
                  \* "scheduled" (it holds the watch) or "alive" (started)
  all_players,    \* self.all_players
  player_teams,   \* self.player_teams
  batch,          \* the lines read by the call of _process_new_lines that
                  \* was the latest step; empty after any other step
  emitted,        \* the callbacks that call invoked, in order
  before,         \* all_players, player_teams and last_position when that
                  \* call began
  returned,       \* what its latest _parse_who_output returned
  submitted,      \* the non-empty names that rosters submitted since the
                  \* last reset
  thr,            \* the calls of _process_new_lines in progress, by thread
  classified,     \* for each piece of the file, how often it was classified
  trigger,        \* what the latest step was: the expiry of the poll timer
                  \* ("poll"), a call of _process_new_lines by the watcher
                  \* ("on_modified") or forced ("force_check"), or "none"
  error,          \* the exception of the latest step: the statement that
                  \* raised it (at) and whether it left the operation (raised)
  leaked,         \* a thread of an Observer that stop() gave up is alive
  stored,         \* the value of POLLING_INTERVAL in section Minecraft of
                  \* config.ini as config.read delivers it, or Missing
  poll_interval,  \* self.poll_interval of the LogMonitor under
                  \* construction: <<>> before it is assigned
  config_call,    \* the latest operation on the configuration
  config_raised,  \* the exception that operation raised, or "none"
  now,            \* time.time(), in seconds
  request_timestamps,  \* self.request_timestamps of a RateLimiter
  callers,        \* the calls of wait_if_needed in progress, by thread
  request,        \* the arguments of the latest call of _make_request
  response,       \* what self.session.get did in that call
  outcome,        \* what the call returned or raised
  api_calls,      \* the calls it made to its collaborators, in order
  lookup,         \* the latest call of get_uuid, get_player_stats or
                  \* get_player_status: the function (fn) and what it
                  \* returned or raised (kind, value)
  ranking         \* the latest call of the ranking engine: the function
                  \* (call), its arguments (players, count, min_stars), the
                  \* list it returned (result) and what it raised

vars ==
  <<corpus, exists, file, last_position, elapsed, running, observer,
    all_players,
    player_teams, batch, emitted, before, returned, submitted, thr,
    classified, trigger, error, leaked, stored, poll_interval, config_call,
    config_raised, now, request_timestamps, callers, request,
    response, outcome, api_calls, lookup, ranking>>

\* the state of the monitor and of its log file
monitorVars ==
  <<corpus, exists, file, last_position, elapsed, running, observer,
    all_players, player_teams, batch, emitted, before, returned, submitted,
    thr, classified, trigger, error, leaked>>

\* the state of the configuration file
configVars == <<stored, poll_interval, config_call, config_raised>>

\* the state of a RateLimiter and of the threads that call it
limiterVars == <<now, request_timestamps, callers>>

\* the latest request of an ApiClient
apiVars == <<request, response, outcome, api_calls, lookup>>

\* the state outside the monitor
appVars == <<configVars, limiterVars, apiVars, ranking>>

\* what the operations on the configuration leave alone
notConfig == <<monitorVars, limiterVars, apiVars, ranking>>

\* what the calls of the rate limiter leave alone
notLimiter == <<monitorVars, configVars, apiVars, ranking>>

\* what a request leaves alone
notApi == <<monitorVars, configVars, limiterVars, ranking>>

\* what the ranking engine leaves alone
notRanking == <<monitorVars, configVars, limiterVars, apiVars>>

\* no call of the ranking engine
NoRanking ==
  [call |-> "none", players |-> <<>>, count |-> 0, min_stars |-> <<>>,
   result |-> <<>>, raised |-> "none"]

\* the fields of a request, a reply and an outcome that do not apply
NoRequest == [url |-> "none", is_hypixel |-> FALSE]
NoBody == [kind |-> "none", success |-> "absent", cause |-> "absent"]
NoReply == [failed |-> FALSE, status |-> 0, body |-> NoBody]
NoOutcome ==
  [kind |-> "none", status |-> 0, cause |-> "none", url |-> "none",
   body |-> NoBody]

LimiterThreads == {"t1", "t2"}

\* a thread that is not in wait_if_needed and has not called it.  Of a
\* thread that is in it: pc is the next step, current_time is its local of
\* that name and wake is the time at which its time.sleep(wait_time)
\* ends; calls counts the calls the thread has begun
NoCaller == [pc |-> "idle", current_time |-> 0, wake |-> 0, calls |-> 0]

\* if current_time - self.last_successful_read < 10
QuietSeconds == 10

Threads == {"watcher", "timer"}

\* a step in which nothing raised
NoError == [at |-> "none", raised |-> FALSE]

\* a thread that is not in _process_new_lines.  Of a thread that is: pc is
\* the next step, force is force_read, size is current_size, start and tell
\* are the offsets before and after its read, content is new_content, and
\* stale tells that the file was replaced after the read
Idle ==
  [pc |-> "idle", force |-> FALSE, size |-> 0, start |-> 0, tell |-> 0,
   content |-> <<>>, stale |-> FALSE]

\* LogMonitor.__init__: the offset is the size of the file, if it exists
InitMonitor(K) ==
  /\ corpus = K
  /\ exists \in BOOLEAN
  /\ file \in IF exists THEN {<<>>, <<Whole(LineHello)>>} ELSE {<<>>}
  /\ last_position = Len(file)
  /\ elapsed = QuietSeconds + 1
  /\ running = FALSE
  /\ observer = "none"
  /\ all_players = {}
  /\ player_teams = EmptyDict
  /\ batch = <<>>
  /\ emitted = <<>>
  /\ before = [all |-> {}, teams |-> EmptyDict, pos |-> 0]
  /\ returned = NoReturn
  /\ submitted = {}
  /\ thr = [t \in Threads |-> Idle]
  /\ classified = [i \in 1..Len(file) |-> 0]
  /\ trigger = "none"
  /\ error = NoError
  /\ leaked = FALSE

\* create_default_config: POLLING_INTERVAL = 2, and a monitor that holds it
InitConfigDefault ==
  /\ stored = <<"2">>
  /\ poll_interval = <<2>>
  /\ config_call = "none"
  /\ config_raised = "none"

\* RateLimiter.__init__: an empty deque
InitLimiterIdle ==
  /\ now = 0
  /\ request_timestamps = <<>>
  /\ callers = [t \in LimiterThreads |-> NoCaller]

NoLookup == [fn |-> "none", kind |-> "none", value |-> "none"]

\* ApiClient.__init__: no request was made
InitApiIdle ==
  /\ request = NoRequest
  /\ response = NoReply
  /\ outcome = NoOutcome
  /\ api_calls = <<>>
  /\ lookup = NoLookup

InitApp ==
  /\ InitConfigDefault
  /\ InitLimiterIdle
  /\ InitApiIdle
  /\ ranking = NoRanking

InitWith(K) == InitMonitor(K) /\ InitApp

Init == \E K \in Corpora : InitWith(K)

(***************************************************************************)
(* The tail reader: the first half of LogMonitor._process_new_lines.       *)
(***************************************************************************)
\* an offset that a shorter file does not reset
KeepPosition(size, pos) == pos

\* if current_size < self.last_position: self.last_position = 0
TruncatedPosition(size, pos) == IF size < pos THEN 0 ELSE pos

\* an early return only for a file that is shorter than the offset
NothingNewStrict(size, pos, force) == size < pos /\ ~force

\* if current_size <= self.last_position and not force_read: return
NothingNew(size, pos, force) == size <= pos /\ ~force

\* a quiet window that still holds at the tenth second
InQuietWindowInclusive(size, pos, force, since) ==
  force /\ size = pos /\ since <= QuietSeconds

\* if force_read and current_size == self.last_position: return when the
\* last successful read is less than 10 seconds ago
InQuietWindow(size, pos, force, since) ==
  force /\ size = pos /\ since < QuietSeconds

\* a read that starts at the beginning of the file
ReadFromStart(f, pos) == f

\* a read that starts one piece before the offset
ReadContentOverlapping(f, pos) ==
  IF pos = 0 THEN f ELSE SubSeq(f, pos, Len(f))

\* f.seek(self.last_position); new_content = f.read()
ReadContent(f, pos) == SubSeq(f, pos + 1, Len(f))

\* a call that does not test whether the file exists
ReadDecisionIgnoringExists(force) ==
  LET size == Len(file)
      pos  == TruncatedPosition(size, last_position)
  IN  IF NothingNew(size, pos, force) THEN "nothing"
      ELSE IF InQuietWindow(size, pos, force, elapsed) THEN "quiet"
      ELSE "read"

\* what a call does: return at once, or read
ReadDecision(force) ==
  LET size == Len(file)
      pos  == TruncatedPosition(size, last_position)
  IN  IF ~exists THEN "missing"
      ELSE IF NothingNew(size, pos, force) THEN "nothing"
      ELSE IF InQuietWindow(size, pos, force, elapsed) THEN "quiet"
      ELSE "read"

\* f.tell() after the read: the end of the file, or the offset sought when
\* that lies behind the end
TellAfterRead(f, pos) == IF pos > Len(f) THEN pos ELSE Len(f)

\* the n pieces after offset start are classified once more (counted to 2)
Bump(c, start, n) ==
  [i \in 1..Len(c) |->
     IF i > start /\ i <= start + n /\ c[i] < 2 THEN c[i] + 1 ELSE c[i]]

\* LogMonitor._process_new_lines(force_read), run without interruption
process_new_lines(force) ==
  LET decision == ReadDecision(force)
      size     == Len(file)
      pos      == TruncatedPosition(size, last_position)
      lines    == IF decision = "read"
                  THEN SplitLines(ReadContent(file, pos), <<>>)
                  ELSE <<>>
  IN  /\ last_position' = IF decision = "missing" THEN last_position
                          ELSE IF decision = "read" THEN size
                          ELSE pos
      /\ elapsed' = IF decision = "read" THEN 0 ELSE elapsed
      /\ classified' = IF decision = "read"
                       THEN Bump(classified, pos, size - pos)
                       ELSE classified
      /\ batch' = lines
      /\ trigger' = IF force THEN "force_check" ELSE "on_modified"
      /\ error' = NoError
      /\ before' = [all |-> all_players, teams |-> player_teams,
                     pos |-> last_position]
      /\ \E st \in {ProcessBatch(all_players, player_teams, submitted,
                                  batch')} :
           /\ all_players' = st.all
           /\ player_teams' = st.teams
           /\ emitted' = st.emitted
           /\ returned' = st.returned
           /\ submitted' = st.submitted
      /\ UNCHANGED <<appVars, leaked,
                     corpus, exists, file, running, observer, thr>>

(***************************************************************************)
(* The operations of the monitor and their triggers.                       *)
(***************************************************************************)
\* a step that is no call of _process_new_lines
NoCall ==
  /\ trigger' = "none"
  /\ error' = NoError
  /\ batch' = <<>>
  /\ emitted' = <<>>
  /\ before' = [all |-> {}, teams |-> EmptyDict, pos |-> 0]
  /\ returned' = NoReturn

\* a start that keeps the lobby state of the session before
StartKeepsLobby ==
  /\ ~running
  /\ running' = TRUE
  /\ observer' = "alive"
  /\ NoCall
  /\ UNCHANGED <<appVars, leaked,
                 corpus, exists, file, last_position, elapsed, thr,
                 classified, all_players, player_teams, submitted>>

\* LogMonitor.start, the watcher started
Start ==
  /\ ~running
  /\ running' = TRUE
  /\ observer' = "alive"
  /\ all_players' = {}
  /\ player_teams' = EmptyDict
  /\ submitted' = {}
  /\ NoCall
  /\ UNCHANGED <<appVars, leaked,
                 corpus, exists, file, last_position, elapsed, thr,
                 classified>>

\* LogMonitor.stop
Stop ==
  /\ running
  /\ running' = FALSE
  /\ observer' = "none"
  /\ NoCall
  /\ UNCHANGED <<appVars, leaked,
                 submitted, corpus, exists, file, last_position, elapsed,
                 all_players, player_teams, thr, classified>>

\* LogEventHandler.on_modified: the watcher reports a change in the directory
WatcherEvent ==
  /\ observer = "alive"
  /\ process_new_lines(FALSE)

\* LogMonitor.check_log_file: a forced call while the monitor runs
check_log_file ==
  /\ running
  /\ process_new_lines(TRUE)

\* The expiry of log_check_timer.  Its slot is self._check_log_file, and the
\* class MainWindow defines that name twice: the later definition, which
\* asks the configuration for the path of the log file and returns True, is
\* the one the class keeps.  It does not call the monitor.
PollTick ==
  /\ trigger' = "poll"
  /\ error' = NoError
  /\ batch' = <<>>
  /\ emitted' = <<>>
  /\ before' = [all |-> {}, teams |-> EmptyDict, pos |-> 0]
  /\ returned' = NoReturn
  /\ UNCHANGED <<appVars, leaked,
                 submitted, corpus, exists, file, last_position, elapsed,
                 running, observer, all_players, player_teams, thr,
                 classified>>

\* MainWindow.refresh_log, on the expiry of refresh_timer or on the user's
\* request: LogMonitor.force_check
ForceCheck ==
  /\ running
  /\ process_new_lines(TRUE)

(***************************************************************************)
(* The environment: the producer of the log, and the clock.                *)
(***************************************************************************)
AppendPiece ==
  /\ Len(file) < MaxFile
  /\ \E p \in corpus :
       /\ file' = Append(file, p)
       /\ classified' = Append(classified, 0)
  /\ exists' = TRUE
  /\ thr' = thr
  /\ NoCall
  /\ UNCHANGED <<appVars, leaked,
                 submitted, corpus, last_position, elapsed, running, observer,
                 all_players, player_teams>>

\* the log is rotated: a new, shorter file takes the place of the old one
Rotate ==
  /\ exists
  /\ Len(file) >= 1
  /\ file' = <<>>
  /\ classified' = <<>>
  /\ thr' = [t \in Threads |->
               IF thr[t].pc \in {"store", "classify"}
               THEN [thr[t] EXCEPT !.stale = TRUE]
               ELSE thr[t]]
  /\ NoCall
  /\ UNCHANGED <<appVars, leaked,
                 submitted, corpus, exists, last_position, elapsed, running,
                 observer, all_players, player_teams>>

\* the log file is removed
Remove ==
  /\ exists
  /\ exists' = FALSE
  /\ file' = <<>>
  /\ classified' = <<>>
  /\ thr' = [t \in Threads |->
               IF thr[t].pc \in {"store", "classify"}
               THEN [thr[t] EXCEPT !.stale = TRUE]
               ELSE thr[t]]
  /\ NoCall
  /\ UNCHANGED <<appVars, leaked,
                 submitted, corpus, last_position, elapsed, running, observer,
                 all_players, player_teams>>

\* time passes
Tick ==
  /\ elapsed <= QuietSeconds
  /\ elapsed' = IF elapsed + Quantum > QuietSeconds
                THEN QuietSeconds + 1
                ELSE elapsed + Quantum
  /\ NoCall
  /\ UNCHANGED <<appVars, leaked,
                 submitted, corpus, exists, file, last_position, running,
                 observer, all_players, player_teams, thr, classified>>

Next ==
  \/ Start
  \/ Stop
  \/ WatcherEvent
  \/ PollTick
  \/ ForceCheck
  \/ AppendPiece
  \/ Rotate
  \/ Remove
  \/ Tick

Spec == Init /\ [][Next]_vars

(***************************************************************************)
(* Names in styling escapes.  A producer that writes rosters whose names   *)
(* are wrapped in escapes: with the section sign U+00A7 as the marker, and *)
(* with the two Thai letters the pattern of the stripper is written with.  *)
(***************************************************************************)
Wrapped(marker, name) == marker \o <<"a">> \o name \o marker \o <<"r">>

SectionSign == <<"<sect>">>
ThaiPair    == <<"<yo-yak>", "<ngo-ngu>">>

LineWhoStyled == <<"ONLINE:", " ">> \o Wrapped(SectionSign, <<"Bob">>)
LineWhoThai   == <<"ONLINE:", " ">> \o Wrapped(ThaiPair, <<"Carol">>)

StyledCorpus == {Whole(l) : l \in {LineWhoStyled, LineWhoThai, LineWhoC}}

InitStyled == InitWith(StyledCorpus)

SpecStyled == InitStyled /\ [][Next]_vars

(***************************************************************************)
(* Failures.  The body of _process_new_lines is one try statement whose    *)
(* handler (lines 296-297) prints the exception and lets the call return;  *)
(* the handler of start (lines 159-162) clears running and raises again.   *)
(***************************************************************************)
\* the statements of _process_new_lines that touch the file
IOSteps == {"getsize", "open", "read"}

\* the statements of start that create, schedule and start the Observer
StartSteps == {"Observer", "schedule", "start"}

\* what lets a call happen: the started watcher calls _process_new_lines(),
\* force_check calls _process_new_lines(force_read=True) while running
Triggered(force) == IF force THEN running ELSE observer = "alive"

\* a failure that leaves last_position at the end of the file
ProcessNewLinesFailingAdvances(force, at) ==
  /\ exists
  /\ at # "getsize" => ReadDecision(force) = "read"
  /\ last_position' = Len(file)
  /\ trigger' = IF force THEN "force_check" ELSE "on_modified"
  /\ error' = [at |-> at, raised |-> FALSE]
  /\ batch' = <<>>
  /\ emitted' = <<>>
  /\ returned' = NoReturn
  /\ before' = [all |-> all_players, teams |-> player_teams,
                 pos |-> last_position]
  /\ UNCHANGED <<appVars, leaked,
                 corpus, exists, file, running, observer, thr, elapsed,
                 classified, all_players, player_teams, submitted>>

\* _process_new_lines(force_read) when the statement at raises.  getsize
\* is reached when the file was found; open and read are reached after the
\* truncation test and the early returns, before last_position and
\* last_successful_read are assigned.
process_new_lines_failing(force, at) ==
  LET pos == TruncatedPosition(Len(file), last_position)
  IN  /\ exists
      /\ at # "getsize" => ReadDecision(force) = "read"
      /\ last_position' = IF at = "getsize" THEN last_position ELSE pos
      /\ trigger' = IF force THEN "force_check" ELSE "on_modified"
      /\ error' = [at |-> at, raised |-> FALSE]
      /\ batch' = <<>>
      /\ emitted' = <<>>
      /\ returned' = NoReturn
      /\ before' = [all |-> all_players, teams |-> player_teams,
                     pos |-> last_position]
      /\ UNCHANGED <<appVars, leaked,
                     corpus, exists, file, running, observer, thr, elapsed,
                     classified, all_players, player_teams, submitted>>

\* a call of _process_new_lines in which the file cannot be read
IOFailure ==
  \E force \in BOOLEAN : \E at \in IOSteps :
    /\ Triggered(force)
    /\ process_new_lines_failing(force, at)

\* the loop when the team callback invoked for line k raises: the lines
\* before k are handled, line k up to the call of the callback, and the
\* exception leaves the loop
AbortAtTeamCall(st, lines, k) ==
  LET st0 == ProcessLines(st, SubSeq(lines, 1, k - 1), 1)
      st1 == IF IsLobbyChange(lines[k]) THEN reset_lobby(st0) ELSE st0
  IN  parse_team_color_info(st1, lines[k], k)

\* the loop and the dispatch when the j-th callback they invoke raises; the
\* player-list callback is the last statement of the dispatch
AbortAtCall(all, teams, subm, lines, j) ==
  LET full == ProcessBatch(all, teams, subm, lines)
  IN  IF full.emitted[j].cb = "team"
      THEN AbortAtTeamCall(LoopStart(all, teams, subm), lines,
                           full.emitted[j].line)
      ELSE full

\* _process_new_lines(force_read) when a callback raises: the file is read
\* and last_position stored before the loop begins
process_new_lines_callback_raises(force) ==
  LET size  == Len(file)
      pos   == TruncatedPosition(size, last_position)
      lines == SplitLines(ReadContent(file, pos), <<>>)
      calls == ProcessBatch(all_players, player_teams, submitted,
                            lines).emitted
  IN  /\ ReadDecision(force) = "read"
      /\ last_position' = size
      /\ elapsed' = 0
      /\ batch' = lines
      /\ trigger' = IF force THEN "force_check" ELSE "on_modified"
      /\ error' = [at |-> "callback", raised |-> FALSE]
      /\ before' = [all |-> all_players, teams |-> player_teams,
                     pos |-> last_position]
      /\ \E j \in 1..Len(calls) :
           /\ classified' = Bump(classified, pos, calls[j].line)
           /\ \E st \in {AbortAtCall(all_players, player_teams, submitted,
                                      lines, j)} :
                /\ all_players' = st.all
                /\ player_teams' = st.teams
                /\ emitted' = st.emitted
                /\ returned' = st.returned
                /\ submitted' = st.submitted
      /\ UNCHANGED <<appVars, leaked,
                     corpus, exists, file, running, observer, thr>>

\* a call of _process_new_lines in which a callback raises
CallbackRaises ==
  \E force \in BOOLEAN :
    /\ Triggered(force)
    /\ process_new_lines_callback_raises(force)

\* LogMonitor.start when Observer(), schedule or observer.start raises:
\* self.observer keeps the Observer that was assigned to it, reset_lobby is
\* not reached, and the handler clears running and raises again
StartFails ==
  /\ ~running
  /\ running' = FALSE
  /\ \E at \in StartSteps :
       /\ observer' = IF at = "Observer" THEN observer
                       ELSE IF at = "schedule" THEN "created"
                       ELSE "scheduled"
       /\ error' = [at |-> at, raised |-> TRUE]
  /\ trigger' = "none"
  /\ batch' = <<>>
  /\ emitted' = <<>>
  /\ before' = [all |-> {}, teams |-> EmptyDict, pos |-> 0]
  /\ returned' = NoReturn
  /\ UNCHANGED <<appVars, leaked,
                 corpus, exists, file, last_position, elapsed, thr,
                 classified, all_players, player_teams, submitted>>

\* the statements of stop that stop the Observer and wait for its thread
StopSteps == {"observer.stop", "observer.join"}

\* a stop whose handler lets the exception of the Observer pass and keeps
\* the reference
StopRaisesToCaller ==
  /\ running
  /\ running' = FALSE
  /\ observer' = observer
  /\ leaked' \in {leaked, TRUE}
  /\ UNCHANGED appVars
  /\ \E at \in StopSteps : error' = [at |-> at, raised |-> TRUE]
  /\ trigger' = "none"
  /\ batch' = <<>>
  /\ emitted' = <<>>
  /\ before' = [all |-> {}, teams |-> EmptyDict, pos |-> 0]
  /\ returned' = NoReturn
  /\ UNCHANGED <<submitted, corpus, exists, file, last_position, elapsed,
                 all_players, player_teams, thr, classified>>

\* LogMonitor.stop when observer.stop() or observer.join raises: the
\* handler prints, the finally clause drops the reference, and the thread
\* of the Observer may go on
StopRaises ==
  /\ running
  /\ running' = FALSE
  /\ observer' = "none"
  /\ leaked' \in {leaked, TRUE}
  /\ UNCHANGED appVars
  /\ \E at \in StopSteps : error' = [at |-> at, raised |-> FALSE]
  /\ trigger' = "none"
  /\ batch' = <<>>
  /\ emitted' = <<>>
  /\ before' = [all |-> {}, teams |-> EmptyDict, pos |-> 0]
  /\ returned' = NoReturn
  /\ UNCHANGED <<submitted, corpus, exists, file, last_position, elapsed,
                 all_players, player_teams, thr, classified>>

\* LogMonitor.stop when the thread of the Observer is still alive after
\* join(timeout=2.0): a warning is printed and the reference is dropped
StopTimesOut ==
  /\ running
  /\ running' = FALSE
  /\ observer' = "none"
  /\ leaked' = TRUE
  /\ UNCHANGED appVars
  /\ NoCall
  /\ UNCHANGED <<submitted, corpus, exists, file, last_position, elapsed,
                 all_players, player_teams, thr, classified>>

\* LogEventHandler.on_modified on the thread of an Observer that outlived
\* stop(): _process_new_lines()
LeakedEvent ==
  /\ leaked
  /\ process_new_lines(FALSE)

\* the pieces written while failures happen
FaultCorpus == {Whole(LineJoinBob), Whole(LineWhoC)}

InitFaults == InitWith(FaultCorpus)

NextFaults ==
  \/ Next
  \/ IOFailure
  \/ CallbackRaises
  \/ StartFails
  \/ StopRaises
  \/ StopTimesOut
  \/ LeakedEvent

SpecFaults == InitFaults /\ [][NextFaults]_vars

(***************************************************************************)
(* The two triggers as threads.  The watchdog observer calls on_modified   *)
(* on its own thread, the refresh timer calls force_check on the main     *)
(* thread, and _process_new_lines takes no lock: a call is a sequence of   *)
(* steps, and the steps of the two calls interleave.                       *)
(***************************************************************************)
Others ==
  <<corpus, exists, file, running, observer, error, leaked, appVars>>

ThreadStep(t, next) == thr' = [thr EXCEPT ![t] = next]

\* on_modified on the observer thread: _process_new_lines()
WatcherBegin ==
  /\ observer = "alive"
  /\ thr["watcher"].pc = "idle"
  /\ ThreadStep("watcher", [Idle EXCEPT !.pc = "stat"])
  /\ UNCHANGED <<Others, last_position, elapsed, all_players, player_teams,
                 batch, emitted, before, returned, submitted, classified,
                 trigger>>

\* force_check on the main thread: _process_new_lines(force_read=True)
TimerBegin ==
  /\ running
  /\ thr["timer"].pc = "idle"
  /\ ThreadStep("timer", [Idle EXCEPT !.pc = "stat", !.force = TRUE])
  /\ UNCHANGED <<Others, last_position, elapsed, all_players, player_teams,
                 batch, emitted, before, returned, submitted, classified,
                 trigger>>

\* os.path.exists, os.path.getsize
StatStep(t) ==
  /\ thr[t].pc = "stat"
  /\ ThreadStep(t, IF exists
                   THEN [thr[t] EXCEPT !.pc = "check", !.size = Len(file)]
                   ELSE Idle)
  /\ UNCHANGED <<Others, last_position, elapsed, all_players, player_teams,
                 batch, emitted, before, returned, submitted, classified,
                 trigger>>

\* the truncation test and the two early returns
CheckStep(t) ==
  /\ thr[t].pc = "check"
  /\ last_position' = TruncatedPosition(thr[t].size, last_position)
  /\ ThreadStep(t,
       IF \/ NothingNew(thr[t].size, last_position', thr[t].force)
          \/ InQuietWindow(thr[t].size, last_position', thr[t].force, elapsed)
       THEN Idle
       ELSE [thr[t] EXCEPT !.pc = "read"])
  /\ UNCHANGED <<Others, elapsed, all_players, player_teams, batch, emitted,
                 before, returned, submitted, classified, trigger>>

\* open, f.seek(self.last_position), f.read(); open raises when the file is
\* gone, and the handler of _process_new_lines ends the call
ReadStep(t) ==
  /\ thr[t].pc = "read"
  /\ ThreadStep(t,
       IF exists
       THEN [thr[t] EXCEPT !.pc = "store",
                           !.start = last_position,
                           !.content = ReadContent(file, last_position),
                           !.tell = TellAfterRead(file, last_position)]
       ELSE Idle)
  /\ UNCHANGED <<Others, last_position, elapsed, all_players, player_teams,
                 batch, emitted, before, returned, submitted, classified,
                 trigger>>

\* self.last_position = f.tell(); self.last_successful_read = time.time()
StoreStep(t) ==
  /\ thr[t].pc = "store"
  /\ last_position' = thr[t].tell
  /\ elapsed' = 0
  /\ ThreadStep(t, [thr[t] EXCEPT !.pc = "classify"])
  /\ UNCHANGED <<Others, all_players, player_teams, batch, emitted, before,
                 returned, submitted, classified, trigger>>

\* the loop over new_content.splitlines() and the dispatch
ClassifyStep(t) ==
  /\ thr[t].pc = "classify"
  /\ batch' = SplitLines(thr[t].content, <<>>)
  /\ trigger' = IF thr[t].force THEN "force_check" ELSE "on_modified"
  /\ before' = [all |-> all_players, teams |-> player_teams,
                 pos |-> thr[t].start]
  /\ \E st \in {ProcessBatch(all_players, player_teams, submitted, batch')} :
       /\ all_players' = st.all
       /\ player_teams' = st.teams
       /\ emitted' = st.emitted
       /\ returned' = st.returned
       /\ submitted' = st.submitted
  /\ classified' = IF thr[t].stale THEN classified
                   ELSE Bump(classified, thr[t].start, Len(thr[t].content))
  /\ ThreadStep(t, Idle)
  /\ UNCHANGED <<Others, last_position, elapsed>>

\* the pieces written while the two threads run
RaceCorpus == {Whole(LineWhoC)}

InitRace == InitWith(RaceCorpus)

NextRace ==
  \/ Start
  \/ AppendPiece
  \/ Rotate
  \/ WatcherBegin
  \/ TimerBegin
  \/ \E t \in Threads :
       \/ StatStep(t)
       \/ CheckStep(t)
       \/ ReadStep(t)
       \/ StoreStep(t)
       \/ ClassifyStep(t)

SpecRace == InitRace /\ [][NextRace]_vars

(***************************************************************************)
(* The configuration file: get_polling_interval and set_polling_interval   *)
(* of src/utils/config.py.  A value of the file is a sequence of           *)
(* characters; "(x)s" stands for the five characters of a reference to an  *)
(* option x that the file does not have.                                   *)
(***************************************************************************)
\* 'POLLING_INTERVAL' not in config['Minecraft']
Missing == "missing"

Digits == <<"0", "1", "2", "3", "4", "5", "6", "7", "8", "9">>

DigitChars == {Digits[i] : i \in 1..Len(Digits)}

DigitValue(c) == (CHOOSE i \in 1..Len(Digits) : Digits[i] = c) - 1

\* configparser.BasicInterpolation.before_get: "%%" is a per cent sign, a
\* reference to a missing option and any other use of "%" raise
RECURSIVE Interpolate(_)
Interpolate(s) ==
  IF s = <<>> THEN [exc |-> "none", val |-> <<>>]
  ELSE IF Head(s) # "%"
       THEN LET r == Interpolate(Tail(s))
            IN [r EXCEPT !.val = <<Head(s)>> \o @]
       ELSE IF Len(s) >= 2 /\ s[2] = "%"
            THEN LET r == Interpolate(SubSeq(s, 3, Len(s)))
                 IN [r EXCEPT !.val = <<"%">> \o @]
            ELSE IF Len(s) >= 2 /\ s[2] = "(x)s"
                 THEN [exc |-> "InterpolationMissingOptionError",
                       val |-> <<>>]
                 ELSE [exc |-> "InterpolationSyntaxError", val |-> <<>>]

\* the digits of an int literal: decimal digits, single underscores between
RECURSIVE IsDigitRun(_)
IsDigitRun(s) ==
  /\ s # <<>>
  /\ Head(s) \in DigitChars
  /\ \/ Len(s) = 1
     \/ IsDigitRun(Tail(s))
     \/ Len(s) >= 3 /\ s[2] = "_" /\ IsDigitRun(SubSeq(s, 3, Len(s)))

RECURSIVE DigitRunValue(_, _)
DigitRunValue(s, acc) ==
  IF s = <<>> THEN acc
  ELSE IF Head(s) = "_" THEN DigitRunValue(Tail(s), acc)
       ELSE DigitRunValue(Tail(s), 10 * acc + DigitValue(Head(s)))

\* int(text): ok is FALSE where int raises ValueError
ParseInt(s) ==
  LET signed == s # <<>> /\ Head(s) \in {"+", "-"}
      digits == IF signed THEN Tail(s) ELSE s
  IN IF IsDigitRun(digits)
     THEN [ok  |-> TRUE,
           val |-> IF signed /\ Head(s) = "-"
                   THEN 0 - DigitRunValue(digits, 0)
                   ELSE DigitRunValue(digits, 0)]
     ELSE [ok |-> FALSE, val |-> 0]

\* str(n) of an int that is not negative
RECURSIVE Str(_)
Str(n) ==
  IF n < 10 THEN <<Digits[n + 1]>>
  ELSE Append(Str(n \div 10), Digits[(n % 10) + 1])

MinInterval == 1
MaxInterval == 10
DefaultInterval == 2

\* max(1, min(10, n))
Clamp(n) ==
  IF n > MaxInterval THEN MaxInterval
  ELSE IF n < MinInterval THEN MinInterval ELSE n

\* get_polling_interval on the value st: what it returns (ret, <<>> when it
\* raises), what it leaves in the file and the exception it lets pass
get_polling_interval(st) ==
  IF st = Missing
  THEN [ret |-> <<DefaultInterval>>, stored |-> Str(DefaultInterval),
        raised |-> "none"]
  ELSE LET v == Interpolate(st)
           p == ParseInt(v.val)
       IN IF v.exc # "none"
          THEN [ret |-> <<>>, stored |-> st, raised |-> v.exc]
          ELSE IF p.ok
               THEN [ret |-> <<Clamp(p.val)>>, stored |-> st,
                     raised |-> "none"]
               ELSE [ret |-> <<DefaultInterval>>,
                     stored |-> Str(DefaultInterval), raised |-> "none"]

\* set_polling_interval(seconds): what it leaves in the file
set_polling_interval(seconds) == Str(Clamp(seconds))

\* the values of the option that a run starts with and that an editor of
\* config.ini writes
StoredValues ==
  {Missing, <<>>, <<"0">>, <<"1">>, <<"7">>, <<"1", "0">>, <<"1", "1">>,
   <<"3", "0", "0">>, <<"-", "3">>, <<"+", "4">>, <<"1", "_", "0">>,
   <<"a", "b", "c">>, <<"2", ".", "5">>, <<"5", "%">>, <<"%", "%">>,
   <<"%", "(x)s">>}

\* the arguments of set_polling_interval
Seconds == (MinInterval - 2)..(MaxInterval + 2)

\* LogMonitor.__init__, line 63: self.poll_interval =
\* config.get_polling_interval()
NewLogMonitor ==
  /\ \E r \in {get_polling_interval(stored)} :
       /\ stored' = r.stored
       /\ poll_interval' = r.ret
       /\ config_raised' = r.raised
  /\ config_call' = "get"
  /\ UNCHANGED notConfig

\* a call of set_polling_interval, as MainWindow.save_settings makes it
SetPollingInterval ==
  /\ \E seconds \in Seconds : stored' = set_polling_interval(seconds)
  /\ config_call' = "set"
  /\ config_raised' = "none"
  /\ UNCHANGED <<poll_interval, notConfig>>

\* config.ini is edited by hand
EditConfig ==
  /\ \E v \in StoredValues : stored' = v
  /\ config_call' = "edit"
  /\ config_raised' = "none"
  /\ UNCHANGED <<poll_interval, notConfig>>

InitConfig ==
  /\ InitMonitor(PlainCorpus)
  /\ stored \in StoredValues
  /\ poll_interval = <<>>
  /\ config_call = "none"
  /\ config_raised = "none"
  /\ InitLimiterIdle
  /\ InitApiIdle
  /\ ranking = NoRanking

NextConfig == NewLogMonitor \/ SetPollingInterval \/ EditConfig

SpecConfig == InitConfig /\ [][NextConfig]_vars

(***************************************************************************)
(* RateLimiter of src/api_client.py.  Time is counted in whole seconds.    *)
(* The two with blocks of wait_if_needed are one step each: every access   *)
(* to the deque is made under self._lock.  Between them the thread holds   *)
(* no lock, and it sleeps there when it has to wait.                       *)
(***************************************************************************)
\* RateLimiter(max_requests, time_window) with a small limit and window
max_requests == 2
time_window == 2

\* the clock stops after the window of the first request has passed
LastSecond == time_window + 1

\* a thread makes as many calls as alone would fill the limit
MaxCalls == max_requests

\* while self.request_timestamps and self.request_timestamps[0] <
\* current_time - self.time_window: self.request_timestamps.popleft()
RECURSIVE Evict(_, _)
Evict(stamps, current_time) ==
  IF stamps # <<>> /\ Head(stamps) < current_time - time_window
  THEN Evict(Tail(stamps), current_time)
  ELSE stamps

\* the wait_time the first with block computes
WaitTime(stamps, current_time) ==
  IF Len(stamps) >= max_requests
  THEN LET w == Head(stamps) + time_window - current_time
       IN IF w > 0 THEN w ELSE 0
  ELSE 0

\* line 43: current_time = time.time()
WaitBegin(t) ==
  /\ callers[t].pc = "idle"
  /\ callers[t].calls < MaxCalls
  /\ callers' = [callers EXCEPT ![t].pc = "check",
                                ![t].current_time = now,
                                ![t].calls = @ + 1]
  /\ UNCHANGED <<now, request_timestamps, notLimiter>>

\* lines 47-59: the first with block, and the start of the sleep
WaitCheck(t) ==
  /\ callers[t].pc = "check"
  /\ \E stamps \in {Evict(request_timestamps, callers[t].current_time)} :
       \E wait_time \in {WaitTime(stamps, callers[t].current_time)} :
         /\ request_timestamps' = stamps
         /\ callers' =
              [callers EXCEPT ![t].pc = IF wait_time > 0 THEN "sleep"
                                        ELSE "record",
                              ![t].wake = now + wait_time]
  /\ UNCHANGED <<now, notLimiter>>

\* time.sleep(wait_time) returns
WaitWake(t) ==
  /\ callers[t].pc = "sleep"
  /\ now >= callers[t].wake
  /\ callers' = [callers EXCEPT ![t].pc = "record"]
  /\ UNCHANGED <<now, request_timestamps, notLimiter>>

\* lines 62-63: self.request_timestamps.append(time.time())
WaitRecord(t) ==
  /\ callers[t].pc = "record"
  /\ request_timestamps' = Append(request_timestamps, now)
  /\ callers' = [callers EXCEPT ![t].pc = "idle",
                                ![t].current_time = 0,
                                ![t].wake = 0]
  /\ UNCHANGED <<now, notLimiter>>

\* a second passes
Second ==
  /\ now < LastSecond
  /\ now' = now + 1
  /\ UNCHANGED <<request_timestamps, callers, notLimiter>>

InitLimiter ==
  /\ InitMonitor(PlainCorpus)
  /\ InitConfigDefault
  /\ InitLimiterIdle
  /\ InitApiIdle
  /\ ranking = NoRanking

NextLimiter ==
  \/ \E t \in LimiterThreads : WaitBegin(t)
  \/ \E t \in LimiterThreads : WaitCheck(t)
  \/ \E t \in LimiterThreads : WaitWake(t)
  \/ \E t \in LimiterThreads : WaitRecord(t)
  \/ Second

SpecLimiter == InitLimiter /\ [][NextLimiter]_vars

(***************************************************************************)
(* ApiClient._make_request of src/api_client.py.  A reply is what          *)
(* self.session.get does: it fails with a RequestException, or it returns  *)
(* a response with a status code and a body.  A body is a JSON object, of  *)
(* which the keys success and cause matter, a JSON number, or text that is *)
(* no JSON.                                                                *)
(***************************************************************************)
Urls ==
  {"https://api.hypixel.net/player",
   "https://api.mojang.com/users/profiles/minecraft/Bob"}

Statuses == {200, 204, 404, 429, 500}

\* the value of the key success: true, false, null, or no such key
SuccessValues == {"absent", "true", "false", "null"}

CauseValues == {"absent", "Invalid API key"}

Bodies ==
  [kind : {"object"}, success : SuccessValues, cause : CauseValues]
    \cup [kind : {"number", "undecodable"}, success : {"absent"},
          cause : {"absent"}]

Replies ==
  {[failed |-> TRUE, status |-> 0, body |-> NoBody]}
    \cup [failed : {FALSE}, status : Statuses, body : Bodies]

\* lines 105-108: the limiter of the API that is called
Limiter(is_hypixel) == IF is_hypixel THEN "rate_limiter" ELSE "mojang_limiter"

\* lines 105-111: the calls that _make_request makes
RequestCalls(url, is_hypixel) ==
  <<[fn |-> "wait_if_needed", on |-> Limiter(is_hypixel)],
    [fn |-> "session.get", on |-> url]>>

\* raise ValueError(f"API request failed with status code ...")
StatusError(reply) ==
  [NoOutcome EXCEPT !.kind = "ValueError", !.status = reply.status]

\* raise requests.RequestException(f"Request to {url} failed: ...")
RequestError(url) ==
  [NoOutcome EXCEPT !.kind = "RequestException", !.url = url]

\* lines 116-123: the response has status 200.  response.json() of a body
\* that is no JSON raises requests.JSONDecodeError, a RequestException that
\* the handler wraps, or with an older requests a plain ValueError that
\* passes (wrapped tells which); 'success' in a number raises TypeError
BodyOutcome(url, body, wrapped) ==
  IF body.kind = "undecodable"
  THEN IF wrapped THEN RequestError(url)
       ELSE [NoOutcome EXCEPT !.kind = "ValueError", !.cause = "JSON"]
  ELSE IF body.kind = "number"
  THEN [NoOutcome EXCEPT !.kind = "TypeError"]
  ELSE IF body.success \in {"false", "null"}
       THEN [NoOutcome EXCEPT
               !.kind = "ValueError",
               !.cause = IF body.cause = "absent" THEN "Unknown API error"
                         ELSE body.cause]
       ELSE [NoOutcome EXCEPT !.kind = "return", !.body = body]

\* a request that does not look at the status code
MakeRequestAnyStatus(url, is_hypixel, reply, wrapped) ==
  [calls   |-> RequestCalls(url, is_hypixel),
   outcome |-> IF reply.failed THEN RequestError(url)
               ELSE BodyOutcome(url, reply.body, wrapped)]

\* ApiClient._make_request(url, params, is_hypixel)
make_request(url, is_hypixel, reply, wrapped) ==
  [calls   |-> RequestCalls(url, is_hypixel),
   outcome |-> IF reply.failed THEN RequestError(url)
               ELSE IF reply.status # 200 THEN StatusError(reply)
                    ELSE BodyOutcome(url, reply.body, wrapped)]

MakeRequest ==
  /\ \E url \in Urls, is_hypixel \in BOOLEAN, rep \in Replies,
        wrapped \in BOOLEAN :
       \E r \in {make_request(url, is_hypixel, rep, wrapped)} :
         /\ request' = [url |-> url, is_hypixel |-> is_hypixel]
         /\ response' = rep
         /\ outcome' = r.outcome
         /\ api_calls' = r.calls
  /\ lookup' = NoLookup
  /\ UNCHANGED notApi

InitApi ==
  /\ InitMonitor(PlainCorpus)
  /\ InitConfigDefault
  /\ InitLimiterIdle
  /\ InitApiIdle
  /\ ranking = NoRanking

NextApi == MakeRequest

SpecApi == InitApi /\ [][NextApi]_vars

(***************************************************************************)
(* The lookups of ApiClient: get_uuid, get_player_stats and                *)
(* get_player_status.  Each calls _make_request once and looks for one key *)
(* of the body it returns: id, player or session.  The payload of a body   *)
(* is the value of that key: "absent" when the body has no such key, null, *)
(* an empty value ('' or {}) or a value that is not empty.                 *)
(***************************************************************************)
PayloadValues == {"absent", "null", "empty", "value"}

LookupBodies ==
  [kind : {"object"}, success : {"absent", "true", "false"},
   cause : {"absent"}, payload : PayloadValues]

LookupReplies ==
  {[failed |-> TRUE, status |-> 0, body |-> NoBody]}
    \cup [failed : {FALSE}, status : {200, 404}, body : LookupBodies]

\* 'not x' of a payload
Falsy(payload) == payload \in {"absent", "null", "empty"}

\* except requests.RequestException / except ValueError: both are raised
\* again as the same type; any other exception passes
Reraised(made) == [kind |-> made.outcome.kind, value |-> "none"]

\* get_uuid, lines 144-153, after _make_request did made.  A body with no
\* key at all is an empty dict
get_uuid(made) ==
  IF made.outcome.kind # "return" THEN Reraised(made)
  ELSE IF made.outcome.body.payload = "absent"
       THEN [kind |-> "ValueError", value |-> "not found"]
       ELSE [kind |-> "return", value |-> made.outcome.body.payload]

\* get_player_stats, lines 176-185
get_player_stats(made) ==
  IF made.outcome.kind # "return" THEN Reraised(made)
  ELSE IF Falsy(made.outcome.body.payload)
       THEN [kind |-> "ValueError", value |-> "not found"]
       ELSE [kind |-> "return", value |-> made.outcome.body.payload]

\* a status lookup that lets the KeyError pass
GetPlayerStatusKeyError(made) ==
  IF made.outcome.kind # "return" THEN Reraised(made)
  ELSE IF made.outcome.body.payload = "absent"
       THEN [kind |-> "KeyError", value |-> "session"]
       ELSE [kind |-> "return", value |-> made.outcome.body.payload]

\* get_player_status, lines 208-217
get_player_status(made) ==
  IF made.outcome.kind # "return" THEN Reraised(made)
  ELSE IF made.outcome.body.payload = "absent"
       THEN [kind |-> "ValueError", value |-> "not available"]
       ELSE [kind |-> "return", value |-> made.outcome.body.payload]

StatusUrl == "https://api.hypixel.net/status"
PlayerUrl == "https://api.hypixel.net/player"
ProfileUrl == "https://api.mojang.com/users/profiles/minecraft/Bob"

\* a lookup: its request, and what it makes of the result
Lookup(fn, url, is_hypixel, rep, wrapped) ==
  /\ \E made \in {make_request(url, is_hypixel, rep, wrapped)} :
       /\ request' = [url |-> url, is_hypixel |-> is_hypixel]
       /\ response' = rep
       /\ outcome' = made.outcome
       /\ api_calls' = made.calls
       /\ \E r \in {CASE fn = "get_uuid" -> get_uuid(made)
                      [] fn = "get_player_stats" -> get_player_stats(made)
                      [] OTHER -> get_player_status(made)} :
            lookup' = [fn |-> fn, kind |-> r.kind, value |-> r.value]
  /\ UNCHANGED notApi

GetUuid ==
  \E rep \in LookupReplies, wrapped \in BOOLEAN :
    Lookup("get_uuid", ProfileUrl, FALSE, rep, wrapped)

GetPlayerStats ==
  \E rep \in LookupReplies, wrapped \in BOOLEAN :
    Lookup("get_player_stats", PlayerUrl, TRUE, rep, wrapped)

GetPlayerStatus ==
  \E rep \in LookupReplies, wrapped \in BOOLEAN :
    Lookup("get_player_status", StatusUrl, TRUE, rep, wrapped)

NextLookup == GetUuid \/ GetPlayerStats \/ GetPlayerStatus

SpecLookup == InitApi /\ [][NextLookup]_vars

(***************************************************************************)
(* The ranking engine, src/ranking_engine.py.  A statistic of a player is  *)
(* a number, a value that is no number, or missing.  bedwars_stars is      *)
(* whole; fkdr and wlr are counted in tenths, so that the score of the     *)
(* sort key, taken a hundredfold, is a whole number.                       *)
(***************************************************************************)
Num(n) == [kind |-> "number", val |-> n]
Absent == [kind |-> "missing", val |-> 0]
Invalid == [kind |-> "invalid", val |-> 0]

Player(name, stars, fkdr, wlr) ==
  [username |-> name, bedwars_stars |-> stars, fkdr |-> fkdr, wlr |-> wlr,
   rank |-> Absent]

\* the players of tests/test_ranking_engine.py
PlayerPool ==
  {Player("Player1", Num(100), Num(20), Absent),
   Player("Player2", Num(200), Num(15), Absent),
   Player("Player3", Num(100), Num(30), Absent),
   Player("Player4", Absent, Num(20), Absent),
   Player("Player5", Num(200), Invalid, Absent),
   Player("Player6", Invalid, Num(20), Num(5))}

\* the lists of players without repetition
PlayerLists ==
  UNION {{ps \in [1..n -> PlayerPool] :
            \A i, j \in 1..n : i # j => ps[i] # ps[j]} : n \in 0..MaxPlayers}

\* float(player.get(key, 0)), with 0 where float raises
Float(stat) == IF stat.kind = "number" THEN stat.val ELSE 0

\* a hundred times stars_points + fkdr_points + wlr_points of sort_key:
\* stars / 100 capped at 0.3 * 5 * fkdr, 5 * fkdr, 3 * wlr
Score(player) ==
  LET stars == Float(player.bedwars_stars)
      fkdr  == Float(player.fkdr)
      wlr   == Float(player.wlr)
      cap   == 15 * fkdr
  IN (IF stars < cap THEN stars ELSE cap) + 50 * fkdr + 30 * wlr

\* sorted(players_copy, key=sort_key) is stable: a player goes behind the
\* players whose score is not lower
RECURSIVE InsertByScore(_, _)
InsertByScore(sorted, player) ==
  IF sorted = <<>> THEN <<player>>
  ELSE IF Score(Head(sorted)) >= Score(player)
       THEN <<Head(sorted)>> \o InsertByScore(Tail(sorted), player)
       ELSE <<player>> \o sorted

RECURSIVE SortByScore(_, _)
SortByScore(players, sorted) ==
  IF players = <<>> THEN sorted
  ELSE SortByScore(Tail(players), InsertByScore(sorted, Head(players)))

\* rank_players(players)
rank_players(players) == SortByScore(players, <<>>)

\* player.get('bedwars_stars', 0) >= min_stars
AtLeast(player, min_stars) ==
  (IF player.bedwars_stars.kind = "missing" THEN 0
   ELSE player.bedwars_stars.val) >= min_stars

\* ranked_players[:count] for a count that is not negative
Take(list, count) == SubSeq(list, 1, IF count < Len(list) THEN count
                                     ELSE Len(list))

\* get_top_players(players, count, min_stars): min_stars is <<>> for None.
\* The comparison of a string with min_stars raises TypeError
get_top_players(players, count, min_stars) ==
  LET ranked == rank_players(players)
  IN IF min_stars = <<>>
     THEN [result |-> Take(ranked, count), raised |-> "none"]
     ELSE IF \E i \in 1..Len(ranked) :
               ranked[i].bedwars_stars.kind = "invalid"
          THEN [result |-> <<>>, raised |-> "TypeError"]
          ELSE [result |->
                  Take(SelectSeq(ranked,
                                 LAMBDA q : AtLeast(q, min_stars[1])),
                       count),
                raised |-> "none"]

MinStars == {<<>>, <<0>>, <<150>>}

\* a call of rank_players with the list of the run
RankPlayers ==
  /\ ranking' = [ranking EXCEPT !.call = "rank_players",
                                !.result = rank_players(ranking.players),
                                !.raised = "none"]
  /\ UNCHANGED notRanking

\* a call of get_top_players with the arguments of the run
GetTopPlayers ==
  /\ \E r \in {get_top_players(ranking.players, ranking.count,
                                ranking.min_stars)} :
       ranking' = [ranking EXCEPT !.call = "get_top_players",
                                  !.result = r.result,
                                  !.raised = r.raised]
  /\ UNCHANGED notRanking

\* a run has one list of players, one count and one min_stars
InitRanking ==
  /\ InitMonitor(PlainCorpus)
  /\ InitConfigDefault
  /\ InitLimiterIdle
  /\ InitApiIdle
  /\ \E ps \in PlayerLists, count \in 0..MaxPlayers, min_stars \in MinStars :
       ranking = [NoRanking EXCEPT !.players = ps, !.count = count,
                                   !.min_stars = min_stars]

NextRanking == RankPlayers \/ GetTopPlayers

SpecRanking == InitRanking /\ [][NextRanking]_vars

(***************************************************************************)
(* Properties.  They speak of the latest call of _process_new_lines: its   *)
(* lines (batch), the lobby state it began with (before) and the callbacks *)
(* it invoked (emitted).                                                   *)
(***************************************************************************)
\* the latest step was a call of _process_new_lines
Called == trigger \in {"on_modified", "force_check"}

BatchLines == 1..Len(batch)

\* the lines of the batch that are roster announcements
RosterLines == {k \in BatchLines : WhoMatches(batch[k])}

\* the invocations of the player-list callback and of the team callback
PlayersCalls == {i \in 1..Len(emitted) : emitted[i].cb = "players"}
TeamCalls == {i \in 1..Len(emitted) : emitted[i].cb = "team"}

\* player_teams when the team patterns are tried on line k: after the lines
\* before it, and after the reset of line k if it is a lobby change
TeamsAtLine(k) ==
  LET st == ProcessLines(LoopStart(before.all, before.teams, {}),
                         SubSeq(batch, 1, k - 1), 1)
  IN  IF IsLobbyChange(batch[k]) THEN EmptyDict ELSE st.teams

\* line k produces a team event
TeamEventAt(k) == FoundTeamInfo(TeamsAtLine(k), batch[k])

\* C1: every key of player_teams is an element of all_players
C1_TeamKeysArePlayers == DOMAIN player_teams \subseteq all_players

\* C2: the calls of the watcher thread and of the timer behave as if
\* serialized: no piece of the file is classified twice, and last_position
\* moves backwards only where a call detects a truncation
NoPieceClassifiedTwice == \A i \in 1..Len(classified) : classified[i] <= 1

TruncationDetected ==
  \E t \in Threads : thr[t].pc = "check" /\ thr[t].size < last_position

C2_TriggersSerialized ==
  [][/\ NoPieceClassifiedTwice'
     /\ last_position' >= last_position \/ TruncationDetected]_vars

\* C3: a batch with at least one roster line, an empty roster included,
\* invokes the player-list callback exactly once, after all its lines
C3_RosterBatchCallsBackOnce ==
  RosterLines # {} =>
    /\ Cardinality(PlayersCalls) = 1
    /\ \A i \in PlayersCalls :
         i = Len(emitted) /\ emitted[i].line = Len(batch)

\* C4: the list passed to the player-list callback of a batch with a roster
\* line is all_players at the end of the batch, each name once
C4_CallbackListIsAllPlayers ==
  RosterLines # {} =>
    \A i \in PlayersCalls :
      /\ BagToSet(emitted[i].players) = all_players
      /\ \A n \in BagToSet(emitted[i].players) :
           CopiesIn(n, emitted[i].players) = 1

\* C5: a batch with a team event and no roster line invokes the player-list
\* callback with the keys of player_teams
C5_TeamBatchCallsBack ==
  ((\E k \in BatchLines : TeamEventAt(k)) /\ RosterLines = {}) =>
    \E i \in PlayersCalls :
      BagToSet(emitted[i].players) = DOMAIN player_teams

\* C6: a batch with no roster line and no team event invokes no callback
QuietBatch == RosterLines = {} /\ \A k \in BatchLines : ~TeamEventAt(k)

C6_QuietBatchNoCallback == QuietBatch => emitted = <<>>

\* a quiet batch of a known player's team chat and a game start
C6_Witness ==
  /\ QuietBatch
  /\ emitted = <<>>
  /\ \E k \in BatchLines : TeamChatMatches(batch[k])
  /\ \E k \in BatchLines : IsLobbyChange(batch[k])

\* C7: each team event invokes the team callback once, while its line is
\* handled and before the player-list callback, with the canonical name and
\* the tag that player_teams holds for the name at that moment; a line
\* without a team event invokes none
C7_TeamCallbackPerEvent ==
  /\ \A k \in BatchLines :
       Cardinality({i \in TeamCalls : emitted[i].line = k})
         = IF TeamEventAt(k) THEN 1 ELSE 0
  /\ \A i \in TeamCalls :
       LET e == emitted[i]
       IN  /\ e.line \in BatchLines
           /\ e.name = TeamEventName(batch[e.line])
           /\ e.tag = TeamEventTag(batch[e.line])
           /\ e.teams = DictSet(TeamsAtLine(e.line), e.name, e.tag)
           /\ e.teams[e.name] = e.tag
  /\ \A i, j \in TeamCalls : i < j => emitted[i].line < emitted[j].line
  /\ \A i \in TeamCalls : \A j \in PlayersCalls : i < j

\* a batch whose team chat and team join of one player each invoke the team
\* callback, before the player-list callback of its roster
C7_Witness ==
  /\ Cardinality(TeamCalls) >= 2
  /\ PlayersCalls # {}
  /\ \E i, j \in TeamCalls :
       /\ emitted[i].name = emitted[j].name
       /\ emitted[i].tag = YOUR_TEAM
       /\ emitted[j].tag = <<"RED">>

\* C8: the list a roster submission returns holds every non-empty name that
\* rosters submitted since the last reset
C8_ReturnedListHoldsSubmitted ==
  returned.matched => returned.submitted \subseteq returned.list

\* C9: all_players only grows, except by a reset: a lobby-join or game-start
\* line in the batch, or a start of the monitor
C9_OnlyResetRemoves ==
  [][(/\ \A k \in 1..Len(batch') : ~IsLobbyChange(batch'[k])
      /\ ~(~running /\ running'))
       => all_players \subseteq all_players']_vars

\* a roster without a known player was read, and the player is still known
C9_Witness ==
  /\ \A k \in BatchLines : ~IsLobbyChange(batch[k])
  /\ \E k \in RosterLines :
       \E n \in before.all :
         n \notin SeqRange(WhoPlayerNames(batch[k])) /\ n \in all_players

\* C10: submitting a roster a second time changes neither all_players nor
\* player_teams and returns the same names, whatever lobby state a call of
\* _process_new_lines has left
C10_RosterIdempotent ==
  \A p \in corpus :
    (Called /\ WhoMatches(p.text)) =>
      \A s1 \in {WhoStep(LoopStart(all_players, player_teams, submitted),
                          p.text)} :
        \A s2 \in {WhoStep(s1, p.text)} :
          /\ s2.all = s1.all
          /\ s2.teams = s1.teams
          /\ s2.returned.list = s1.returned.list

\* a batch that holds the same roster twice in a row
C10_Witness ==
  /\ \E k \in RosterLines :
       /\ k + 1 \in RosterLines
       /\ batch[k + 1] = batch[k]
       /\ SeqRange(WhoPlayerNames(batch[k])) # {}
  /\ returned.list = all_players
  /\ all_players # {}

\* the names of a roster line: none for the roster that lists nobody
RosterNames(line) ==
  IF WhoIsEmptyRoster(line) THEN {} ELSE SeqRange(WhoPlayerNames(line))

\* the lines of the batch that are a reset marker and match neither the
\* roster pattern nor the team-join pattern
MarkerLines ==
  {k \in BatchLines :
     /\ IsLobbyChange(batch[k])
     /\ ~WhoMatches(batch[k])
     /\ ~TeamJoinMatches(batch[k])}

\* C11: whatever the lobby state was before, a reset marker followed by a
\* roster line leaves all_players equal to the names of that roster, also
\* when both are lines of one batch; and the lines from the marker on are
\* processed as they would be from an empty lobby
C11_ResetThenRoster ==
  \A k \in MarkerLines :
    /\ (k < Len(batch) /\ WhoMatches(batch[k + 1])
           /\ ~TeamJoinMatches(batch[k + 1])) =>
         \A st \in {ProcessLines(LoopStart(before.all, before.teams, {}),
                                 SubSeq(batch, 1, k + 1), 1)} :
           /\ st.all = RosterNames(batch[k + 1])
           /\ k + 1 = Len(batch) => all_players = st.all
    /\ \A fresh \in {ProcessLines(LoopStart({}, EmptyDict, {}),
                                   SubSeq(batch, k + 1, Len(batch)), 1)} :
         /\ all_players = fresh.all
         /\ player_teams = fresh.teams

\* a batch of a reset marker and a roster, read when a player was known
\* that the roster does not list
C11_Witness ==
  /\ Len(batch) = 2
  /\ 1 \in MarkerLines
  /\ WhoMatches(batch[2])
  /\ all_players = RosterNames(batch[2])
  /\ all_players # {}
  /\ before.all \ all_players # {}

\* the lobby state right after the reset that line k of the batch causes
AfterResetAt(k) ==
  reset_lobby(ProcessLines(LoopStart(before.all, before.teams, {}),
                           SubSeq(batch, 1, k - 1), 1))

Cleared(all, teams) == all = {} /\ teams = EmptyDict

\* C12: all_players and player_teams are both empty right after every
\* lobby-join or game-start line is classified (at the end of the batch
\* when such a line, matching no other pattern, is its last), and after
\* every start that takes the monitor from not running to running
C12_ClearedAfterResetAndStart ==
  /\ [](\A k \in BatchLines :
          IsLobbyChange(batch[k]) =>
            /\ Cleared(AfterResetAt(k).all, AfterResetAt(k).teams)
            /\ (k = Len(batch) /\ k \in MarkerLines
                   /\ ~TeamChatMatches(batch[k]))
                  => Cleared(all_players, player_teams))
  /\ [][(~running /\ running')
          => Cleared(all_players', player_teams')]_vars

\* a batch that ends with a game-start marker, read when a team was known
C12_Witness ==
  /\ batch # <<>>
  /\ Contains(batch[Len(batch)], "The game has started!")
  /\ Len(batch) \in MarkerLines
  /\ before.teams # EmptyDict
  /\ Cleared(all_players, player_teams)

\* C13: every start that takes the monitor from not running to running, a
\* restart after a stop included, leaves last_position at the size of the
\* file, so that what the file held before the start is never classified
C13_StartSetsOffsetToSize ==
  [][(~running /\ running') => last_position' = Len(file')]_vars

\* C14: a call that is not forced, made when the size of the file equals
\* last_position, reads nothing: last_position and the time of the last
\* successful read stay, no line is classified, no callback is invoked and
\* the lobby state stays; the file is then still as long as last_position,
\* so the same holds for the next such call
C14_NoGrowthNoRead ==
  [][(trigger' = "on_modified" /\ exists /\ Len(file) = last_position) =>
       /\ last_position' = last_position
       /\ Len(file') = last_position'
       /\ elapsed' = elapsed
       /\ batch' = <<>>
       /\ classified' = classified
       /\ emitted' = <<>>
       /\ all_players' = all_players
       /\ player_teams' = player_teams]_vars

\* the watcher has called after a read, and the file has not grown since
C14_Witness ==
  /\ trigger = "on_modified"
  /\ exists
  /\ last_position = Len(file)
  /\ last_position > 0
  /\ batch = <<>>
  /\ all_players # {}

\* C15: a call that finds the file shorter than last_position reads from
\* offset zero: its lines are all the lines of the file, each piece of the
\* file is classified, and last_position ends at the end of the file
C15_TruncationRereadsFromStart ==
  (Called /\ exists /\ Len(file) < before.pos) =>
    /\ batch = SplitLines(file, <<>>)
    /\ \A i \in 1..Len(classified) : classified[i] >= 1
    /\ last_position = Len(file)

\* a call that found a new, shorter file that is not empty
C15_Witness ==
  /\ Called
  /\ exists
  /\ Len(file) < before.pos
  /\ Len(file) >= 1
  /\ Len(batch) = Len(file)
  /\ last_position = Len(file)

\* C16: a call, forced or not, that does not find the file changes nothing:
\* last_position, the time of the last successful read and the lobby state
\* stay, no line is classified, no callback is invoked, nothing is raised,
\* and the monitor and its watcher keep running
C16_MissingFileNoChange ==
  [][(trigger' \in {"on_modified", "force_check"} /\ ~exists) =>
       /\ last_position' = last_position
       /\ elapsed' = elapsed
       /\ all_players' = all_players
       /\ player_teams' = player_teams
       /\ classified' = classified
       /\ batch' = <<>>
       /\ emitted' = <<>>
       /\ error' = NoError
       /\ running' = running
       /\ observer' = observer]_vars

\* a call that did not find the file, made after lines of it were read
C16_Witness ==
  /\ Called
  /\ ~exists
  /\ last_position > 0
  /\ before.pos = last_position
  /\ all_players # {}
  /\ error = NoError

\* the offset from which a call would read
ReadStart == TruncatedPosition(Len(file), last_position)

\* C17: a call in which getsize, open or read raises does not raise to its
\* trigger and counts as a cycle without new content: last_position does
\* not advance, the time of the last successful read and the lobby state
\* stay, no line is classified, no callback is invoked, the monitor keeps
\* running, and the next call reads from the offset this one would have
\* read from
C17_IOFailureContained ==
  [][(error'.at \in IOSteps) =>
       /\ ~error'.raised
       /\ last_position' <= last_position
       /\ ReadStart' = ReadStart
       /\ elapsed' = elapsed
       /\ all_players' = all_players
       /\ player_teams' = player_teams
       /\ classified' = classified
       /\ batch' = <<>>
       /\ emitted' = <<>>
       /\ running' = running
       /\ observer' = observer]_vars

\* a call that could not open or read a file with unread lines, made when
\* players were known
C17_Witness ==
  /\ Called
  /\ error.at \in {"open", "read"}
  /\ ~error.raised
  /\ exists
  /\ Len(file) > last_position
  /\ all_players # {}
  /\ emitted = <<>>

\* C18: an exception that a callback raises while a line of a batch is
\* handled is contained to that line: the lines after it are classified and
\* applied, so the call ends with the lobby state that the whole batch
\* produces and with every piece it read classified
C18_CallbackErrorContainedToLine ==
  error.at = "callback" =>
    \A full \in {ProcessBatch(before.all, before.teams, {}, batch)} :
      /\ all_players = full.all
      /\ player_teams = full.teams
      /\ \A i \in 1..Len(classified) :
           i > TruncatedPosition(Len(file), before.pos) => classified[i] >= 1

\* C19: while the monitor runs, every expiry of the poll timer is a forced
\* call of _process_new_lines, whatever the watcher does: lines that are in
\* the file and not yet read are read and classified by it
C19_PollTimerForcesProcessing ==
  [][(trigger' = "poll" /\ running /\ exists /\ Len(file) > last_position)
       => /\ last_position' = Len(file)
          /\ batch' = SplitLines(ReadContent(file, last_position), <<>>)]_vars

\* C20: a start in which creating, scheduling or starting the Observer
\* raises reports the exception to its caller and leaves the monitor as one
\* that was never started: running is false and self.observer holds no
\* Observer
C20_StartFailureLeavesCleanState ==
  error.at \in StartSteps =>
    /\ error.raised
    /\ ~running
    /\ observer = "none"

\* C21: a stop of a running monitor raises nothing and leaves running false
\* and self.observer without an Observer, whether the Observer stops in
\* time, is still alive after the join, or raises while it is stopped
C21_StopNeverRaises ==
  [][(running /\ ~running') =>
       /\ ~error'.raised
       /\ observer' = "none"]_vars

\* a stop in which the Observer raised, and one after which its thread lives
C21_Witness ==
  /\ ~running
  /\ observer = "none"
  /\ error.at \in StopSteps
  /\ ~error.raised
  /\ leaked

\* C22: while the monitor is not running no trigger reads the file, moves
\* last_position, changes the lobby state or invokes a callback, also when
\* the thread of the Observer outlived the join of stop
C22_QuiescentAfterStop ==
  [][(~running /\ ~running') =>
       /\ last_position' = last_position
       /\ all_players' = all_players
       /\ player_teams' = player_teams
       /\ batch' = <<>>
       /\ emitted' = <<>>]_vars

\* all_players when the team patterns are tried on line k: after the lines
\* before it, and after the reset of line k if it is a lobby change
AllAtLine(k) ==
  LET st == ProcessLines(LoopStart(before.all, before.teams, {}),
                         SubSeq(batch, 1, k - 1), 1)
  IN  IF IsLobbyChange(batch[k]) THEN {} ELSE st.all

\* the last line of the batch, when it is a team-chat line and no roster
LastTeamChat ==
  {n \in BatchLines :
     n = Len(batch) /\ TeamChatMatches(batch[n]) /\ ~WhoMatches(batch[n])}

\* C23: a team-chat line whose canonical name is not empty and not yet a key
\* of player_teams gives the name the tag YOUR_TEAM, adds it to all_players
\* and reports one team event; for a name that is a key already it changes
\* nothing and reports nothing
C23_TeamChatRecords ==
  \A n \in LastTeamChat :
    \A name \in {TeamEventName(batch[n])} :
      \A teams0 \in {TeamsAtLine(n)} :
        \A all0 \in {AllAtLine(n)} :
          IF name # <<>> /\ name \notin DOMAIN teams0
          THEN /\ player_teams = DictSet(teams0, name, YOUR_TEAM)
               /\ all_players = all0 \cup {name}
               /\ Cardinality({i \in TeamCalls : emitted[i].line = n}) = 1
          ELSE /\ player_teams = teams0
               /\ all_players = all0
               /\ {i \in TeamCalls : emitted[i].line = n} = {}

\* the last line of the batch, when it is a team-join line, no team-chat
\* line and no roster
LastTeamJoin ==
  {n \in BatchLines :
     n = Len(batch) /\ TeamJoinApplies(batch[n]) /\ ~WhoMatches(batch[n])}

\* LogMonitor.get_player_team: self.player_teams.get(player_name)
get_player_team(name) ==
  IF name \in DOMAIN player_teams THEN player_teams[name] ELSE <<>>

\* C24: a team-join line stores the colour in upper case, whatever its
\* casing in the log, in place of any tag the name had, and adds the name to
\* all_players; the other names keep their tags
C24_TeamJoinStoresUpperCase ==
  \A n \in LastTeamJoin :
    \A name \in {TeamEventName(batch[n])} :
      \A tag \in {Upper(TeamJoinColor(batch[n]))} :
        /\ get_player_team(name) = tag
        /\ Upper(tag) = tag
        /\ \A i \in 1..Len(tag) : tag[i] \notin {"red", "Red"}
        /\ player_teams = DictSet(TeamsAtLine(n), name, tag)
        /\ all_players = AllAtLine(n) \cup {name}

\* a team join in lower case of a player who had a tag
C24_Witness ==
  \E n \in LastTeamJoin :
    /\ TeamEventName(batch[n]) \in DOMAIN TeamsAtLine(n)
    /\ TeamJoinColor(batch[n]) = <<"red">>
    /\ get_player_team(TeamEventName(batch[n])) = <<"RED">>
    /\ TeamEventName(batch[n]) \in all_players

\* C25: the empty name is no element of all_players, no key of
\* player_teams and no argument of a callback
C25_NoEmptyName ==
  /\ <<>> \notin all_players
  /\ <<>> \notin DOMAIN player_teams
  /\ \A i \in TeamCalls : emitted[i].name # <<>>
  /\ \A i \in PlayersCalls : <<>> \notin BagToSet(emitted[i].players)

\* the event types a line matches
MatchedTypes(line) ==
  {t \in {"LobbyReset", "PlayerList", "TeamChat", "TeamJoin"} :
     \/ t = "LobbyReset" /\ IsLobbyChange(line)
     \/ t = "PlayerList" /\ WhoMatches(line)
     \/ t = "TeamChat" /\ TeamChatMatches(line)
     \/ t = "TeamJoin" /\ TeamJoinMatches(line)}

\* a batch of one line
OneLineBatch == Called /\ Len(batch) = 1 /\ batch[1] # <<>>

\* C26: a line is applied as the first type it matches, in the order
\* LobbyReset, PlayerList, TeamChat, TeamJoin, and as no other: a lobby
\* change leaves a cleared lobby and calls nothing, a roster line that is
\* no lobby change leaves the teams alone and reports no team event
C26_FirstMatchingTypeOnly ==
  OneLineBatch =>
    \A types \in {MatchedTypes(batch[1])} :
      /\ "LobbyReset" \in types =>
            Cleared(all_players, player_teams) /\ emitted = <<>>
      /\ ("PlayerList" \in types /\ "LobbyReset" \notin types) =>
            player_teams = before.teams /\ TeamCalls = {}

\* the names the producer of StyledCorpus wraps in section-sign escapes
StyledNames == {<<"Bob">>}

\* the last line of the batch, when it is the roster of one wrapped name
LastStyledRoster(name) ==
  {n \in BatchLines :
     /\ n = Len(batch)
     /\ batch[n] = <<"ONLINE:", " ">> \o Wrapped(SectionSign, name)}

\* C27: the stripper removes both characters of every styling escape: the
\* name N wrapped as section sign, 'a', N, section sign, 'r' comes out as
\* N, and the roster line adds exactly N
C27_StripRemovesEscapes ==
  \A name \in StyledNames :
    \A n \in LastStyledRoster(name) :
      /\ strip_minecraft_formatting(Wrapped(SectionSign, name)) = name
      /\ all_players = AllAtLine(n) \cup {name}

\* C28: the interval that get_polling_interval hands to the monitor is an
\* integer in 1..10 whatever the file holds, and set_polling_interval leaves
\* an integer in 1..10 in the file
C28_PollingIntervalInRange ==
  /\ config_call = "get" =>
       /\ config_raised = "none"
       /\ poll_interval # <<>>
       /\ poll_interval[1] \in MinInterval..MaxInterval
  /\ config_call = "set" =>
       \E n \in MinInterval..MaxInterval : stored = Str(n)

\* the recorded timestamps that fall in the window that begins at second t
InWindow(t) ==
  {i \in 1..Len(request_timestamps) :
     /\ t <= request_timestamps[i]
     /\ request_timestamps[i] < t + time_window}

\* C29: whatever the interleaving of the threads in wait_if_needed, no
\* window of time_window seconds holds more than max_requests recorded
\* timestamps
C29_LimitNeverExceeded ==
  \A t \in 0..LastSecond : Cardinality(InWindow(t)) <= max_requests

\* the calls of the latest request to a rate limiter
LimiterCalls == {i \in 1..Len(api_calls) : api_calls[i].fn = "wait_if_needed"}

\* C30: a request returns the decoded body only for a response with status
\* 200 whose body does not carry success = false; another status gives a
\* ValueError with the status code, success = false a ValueError with the
\* reported cause, a failure of the transport a RequestException with the
\* URL; and in each case one rate limiter was consulted, once, before the
\* request was sent
C30_MakeRequestOutcomes ==
  request # NoRequest =>
    /\ outcome.kind = "return" =>
         /\ ~response.failed
         /\ response.status = 200
         /\ response.body.kind = "object"
         /\ response.body.success # "false"
         /\ outcome.body = response.body
    /\ (~response.failed /\ response.status # 200) =>
         /\ outcome.kind = "ValueError"
         /\ outcome.status = response.status
    /\ (/\ ~response.failed
        /\ response.status = 200
        /\ response.body.kind = "object"
        /\ response.body.success = "false") =>
         /\ outcome.kind = "ValueError"
         /\ response.body.cause # "absent" =>
              outcome.cause = response.body.cause
    /\ response.failed =>
         /\ outcome.kind = "RequestException"
         /\ outcome.url = request.url
    /\ Cardinality(LimiterCalls) = 1
    /\ \A i \in 1..Len(api_calls) :
         api_calls[i].fn = "session.get" =>
           /\ api_calls[i].on = request.url
           /\ \A j \in LimiterCalls : j < i
    /\ \E i \in 1..Len(api_calls) : api_calls[i].fn = "session.get"

\* the Hypixel API answered 200 with success = false and a cause
C30_Witness ==
  /\ request.is_hypixel
  /\ ~response.failed
  /\ response.status = 200
  /\ response.body.success = "false"
  /\ outcome.kind = "ValueError"
  /\ outcome.cause = "Invalid API key"
  /\ Len(api_calls) = 2
  /\ api_calls[1] = [fn |-> "wait_if_needed", on |-> "rate_limiter"]

\* the payload of the body that _make_request returned to the lookup
Payload == outcome.body.payload

\* the requests the latest lookup sent
SentRequests == {i \in 1..Len(api_calls) : api_calls[i].fn = "session.get"}

\* C31: a lookup sends one request; when the request returns a body,
\* get_uuid raises ValueError for a body without id, get_player_stats for a
\* player that is absent or null, get_player_status for a body without
\* session, and what a lookup returns is the value of its key
C31_LookupsMapMissingPayload ==
  lookup.fn # "none" =>
    /\ Cardinality(SentRequests) = 1
    /\ lookup.kind \in {"return", "ValueError", "RequestException"}
    /\ outcome.kind # "return" => lookup.kind = outcome.kind
    /\ outcome.kind = "return" =>
         /\ lookup.kind \in {"return", "ValueError"}
         /\ lookup.kind = "return" => lookup.value = Payload
         /\ (lookup.fn = "get_uuid" /\ Payload = "absent") =>
              lookup.kind = "ValueError"
         /\ (lookup.fn = "get_player_stats"
               /\ Payload \in {"absent", "null"}) =>
              lookup.kind = "ValueError"
         /\ (lookup.fn = "get_player_status" /\ Payload = "absent") =>
              lookup.kind = "ValueError"
         /\ (lookup.kind = "ValueError" /\ lookup.fn # "get_player_stats")
              => Payload = "absent"
         /\ (lookup.kind = "ValueError" /\ lookup.fn = "get_player_stats")
              => Falsy(Payload)

\* the status endpoint answered success without a session
C31_Witness ==
  /\ lookup.fn = "get_player_status"
  /\ outcome.kind = "return"
  /\ outcome.body.success = "true"
  /\ outcome.body.payload = "absent"
  /\ lookup.kind = "ValueError"
  /\ Cardinality(SentRequests) = 1

Ranked == ranking.call = "rank_players"

\* C32: the list rank_players returns is in descending order of
\* bedwars_stars, equal stars in descending order of fkdr, a value that is
\* missing or no number counting as 0
C32_RankedByStarsThenFkdr ==
  Ranked =>
    \A i, j \in 1..Len(ranking.result) :
      i < j =>
        \A a \in {ranking.result[i]}, b \in {ranking.result[j]} :
          \/ Float(a.bedwars_stars) > Float(b.bedwars_stars)
          \/ /\ Float(a.bedwars_stars) = Float(b.bedwars_stars)
             /\ Float(a.fkdr) >= Float(b.fkdr)

\* the positions of the result that hold the player q
PositionsOf(q) ==
  {i \in 1..Len(ranking.result) :
     ranking.result[i].username = q.username}

\* C33: rank_players returns each player of its input once, an empty list
\* for an empty input, and the player at position i (counted from 0)
\* carries rank = i + 1
C33_RankedOnceWithRank ==
  Ranked =>
    /\ Len(ranking.result) = Len(ranking.players)
    /\ \A k \in 1..Len(ranking.players) :
         Cardinality(PositionsOf(ranking.players[k])) = 1
    /\ \A i \in 1..Len(ranking.result) : ranking.result[i].rank = Num(i)

Topped == ranking.call = "get_top_players"

\* the players of the input that min_stars lets through
Qualifying ==
  {k \in 1..Len(ranking.players) :
     \/ ranking.min_stars = <<>>
     \/ Float(ranking.players[k].bedwars_stars) >= ranking.min_stars[1]}

\* C34: get_top_players returns at most count players, none of them below
\* min_stars when it is given, in descending order of stars, and no
\* qualifying player it leaves out has more stars than one it returns
C34_TopPlayersByStars ==
  Topped =>
    /\ ranking.raised = "none"
    /\ Len(ranking.result) <= ranking.count
    /\ \A i \in 1..Len(ranking.result) :
         /\ \E k \in Qualifying : ranking.players[k] = ranking.result[i]
         /\ \A j \in 1..Len(ranking.result) :
              i < j => Float(ranking.result[i].bedwars_stars)
                         >= Float(ranking.result[j].bedwars_stars)
         /\ \A k \in Qualifying :
              PositionsOf(ranking.players[k]) = {} =>
                Float(ranking.players[k].bedwars_stars)
                  <= Float(ranking.result[i].bedwars_stars)

(***************************************************************************)
(* A producer that only appends: the log is neither rotated nor removed,   *)
(* so that the file never gets shorter.                                    *)
(***************************************************************************)
NextAppendOnly ==
  \/ Start
  \/ Stop
  \/ WatcherEvent
  \/ PollTick
  \/ ForceCheck
  \/ AppendPiece
  \/ Tick

SpecAppendOnly == Init /\ [][NextAppendOnly]_vars

\* C35: with the calls of _process_new_lines run one at a time and a file that
\* never gets shorter, a call that reads leaves last_position at the end of
\* the file, and the text it consumes is what the file holds from the old
\* last_position to that end; no other step moves last_position, and no
\* piece is consumed twice.  The texts of successive reads therefore add up
\* to what was appended since the construction of the monitor.
C35_ReadsConsumeAppendedOnce ==
  [][LET force == trigger' = "force_check"
         reads == Called' /\ ReadDecision(force) = "read"
     IN  /\ last_position' <= Len(file')
         /\ \A i \in 1..Len(classified') : classified'[i] <= 1
         /\ IF reads
            THEN /\ last_position' = Len(file)
                 /\ batch' = SplitLines(SubSeq(file, last_position + 1,
                                               Len(file)), <<>>)
                 /\ \A i \in 1..Len(file) :
                      classified'[i] = IF i > last_position THEN 1
                                       ELSE classified[i]
            ELSE /\ last_position' = last_position
                 /\ \A i \in 1..Len(classified) :
                      classified'[i] = classified[i]]_vars

\* two successive reads, the second of the piece appended after the first
C35_Witness ==
  /\ Called
  /\ before.pos = 1
  /\ last_position = 2
  /\ classified = <<1, 1>>
  /\ batch # <<>>

\* a forced call finds an existing file whose size is last_position
ForcedAtEnd ==
  /\ trigger' = "force_check"
  /\ exists
  /\ Len(file) = last_position

\* the call opened the file and read from last_position: the time of the
\* last successful read is the time of the call
Reopened == elapsed' = 0 /\ last_position' = Len(file)

\* the call returned before it opened the file
ReturnedUnopened == elapsed' = elapsed /\ last_position' = last_position

LineWhoHead == <<"ONLINE:", " ", "Alice", ",">>
LineWhoTail == <<" ", "Bob", " ", "(2)">>

SplitCorpus ==
  {[text |-> LineWhoHead, nl |-> FALSE], [text |-> LineWhoTail, nl |-> TRUE]}

InitSplit == InitWith(SplitCorpus)

SpecSplit == InitSplit /\ [][NextAppendOnly]_vars

\* the lines of f whose line end lies behind offset pos, each taken whole
\* from the piece that begins it; cur is the text of the line begun before
\* piece i
RECURSIVE WholeLinesFrom(_, _, _, _)
WholeLinesFrom(f, i, cur, pos) ==
  IF i > Len(f) THEN <<>>
  ELSE IF f[i].nl
       THEN (IF i > pos THEN <<cur \o f[i].text>> ELSE <<>>)
              \o WholeLinesFrom(f, i + 1, <<>>, pos)
       ELSE WholeLinesFrom(f, i + 1, cur \o f[i].text, pos)

LinesEndingAfter(f, pos) == WholeLinesFrom(f, 1, <<>>, pos)

\* C37: a line that the producer writes in two appends, the first without
\* the line end and read by one call, the rest read by a later call, is
\* classified once and whole: the lines a reading call classifies are the
\* lines of the file whose line end it has read, each from its beginning,
\* and a part without its line end is not classified by itself.
C37_SplitLineClassifiedWhole ==
  [][LET force == trigger' = "force_check"
     IN  (Called' /\ ReadDecision(force) = "read") =>
           batch' = LinesEndingAfter(file, last_position)]_vars

\* C38: a call of _process_new_lines that finds the size of the file equal
\* to last_position, forced or not, inside or outside the quiet window,
\* changes nothing the consumer sees: all_players, player_teams and
\* last_position stay and no callback is invoked; the file is then still
\* as long as last_position, so the same holds however often the call is
\* repeated.
C38_NothingNewIsNoOp ==
  [][(Called' /\ exists /\ Len(file) = last_position) =>
       /\ all_players' = all_players
       /\ player_teams' = player_teams
       /\ last_position' = last_position
       /\ emitted' = <<>>
       /\ exists'
       /\ Len(file') = last_position']_vars

\* a forced call has found nothing new in a file whose roster was read
\* before
C38_Witness ==
  /\ trigger = "force_check"
  /\ exists
  /\ before.pos = Len(file)
  /\ last_position = Len(file)
  /\ all_players # {}
  /\ before.all = all_players
  /\ emitted = <<>>

(***************************************************************************)
(* The calls of start and stop that return at their first test.            *)
(***************************************************************************)
\* LogMonitor.start on a running monitor: if self.running: return
StartWhileRunning ==
  /\ running
  /\ trigger' = "start"
  /\ error' = NoError
  /\ batch' = <<>>
  /\ emitted' = <<>>
  /\ before' = [all |-> all_players, teams |-> player_teams,
                 pos |-> last_position]
  /\ returned' = NoReturn
  /\ UNCHANGED <<appVars, leaked, corpus, exists, file, last_position,
                 elapsed, running, observer, all_players, player_teams,
                 submitted, thr, classified>>

\* LogMonitor.stop on a monitor that is not running: if not self.running:
\* return
StopWhileStopped ==
  /\ ~running
  /\ trigger' = "stop"
  /\ error' = NoError
  /\ batch' = <<>>
  /\ emitted' = <<>>
  /\ before' = [all |-> all_players, teams |-> player_teams,
                 pos |-> last_position]
  /\ returned' = NoReturn
  /\ UNCHANGED <<appVars, leaked, corpus, exists, file, last_position,
                 elapsed, running, observer, all_players, player_teams,
                 submitted, thr, classified>>

NextLifecycle ==
  \/ NextFaults
  \/ StartWhileRunning
  \/ StopWhileStopped

SpecLifecycle == InitFaults /\ [][NextLifecycle]_vars

\* the Observers whose thread runs: the one self.observer holds, and one
\* that outlived a stop
ActiveWatchers ==
  (IF observer = "alive" THEN 1 ELSE 0) + (IF leaked THEN 1 ELSE 0)

\* what a caller of the monitor can tell apart
MonitorState ==
  <<running, observer, leaked, all_players, player_teams, last_position,
    elapsed>>

\* start on a running monitor and stop on one that is not running change
\* nothing: no Observer is created and the lobby state is not reset
RepeatedCallsAreNoOps ==
  [][(trigger' \in {"start", "stop"}) =>
       /\ MonitorState' = MonitorState
       /\ emitted' = <<>>]_vars

\* C39: start on a running monitor and stop on a monitor that is not running
\* are no-ops (no second Observer, no reset of the lobby state, nothing
\* changed), and at most one Observer is active for the monitor in every
\* state that calls of start and stop lead to.
C39_AtMostOneWatcher ==
  /\ RepeatedCallsAreNoOps
  /\ [](ActiveWatchers <= 1)

====
